---- MODULE Spec2Model ----
(***************************************************************************)
(* Package packing (providers/dhl/box-selection.ts), parcel-type selection *)
(* (dhl-api/get-fulfillment-options.ts) and the callers that resolve the   *)
(* parcel type of a label (providers/dhl/service.ts createFulfillment and  *)
(* calculatePrice, workflows/create-shipment.ts createDhlShipment).        *)
(*                                                                         *)
(* Weights are JavaScript numbers: kilograms are IEEE-754 binary64 values  *)
(* obtained from integer grams by `/ 1000` and accumulated with `+`.  A    *)
(* non-negative binary64 value is the record [hi, lo, e] standing for      *)
(* (hi * 2^26 + lo) * 2^e with a 53-bit significand (2^26 <= hi < 2^27),   *)
(* or F0 for 0.  Lengths are whole centimetres, volumes their products.    *)
(***************************************************************************)
EXTENDS Integers, Sequences, FiniteSets, TLC

Undefined == "undefined"

\* ------------------------------------------------------------------------
\* binary64 arithmetic on non-negative values (round to nearest, ties to even)
\* ------------------------------------------------------------------------
LimbBits == 26
Limb == 2 ^ LimbBits
HalfLimb == 2 ^ (LimbBits - 1)
HiTop == 2 ^ (LimbBits + 1)

F0 == [hi |-> 0, lo |-> 0, e |-> 0]

FIsZero(x) == x.hi = 0 /\ x.lo = 0

\* one right shift of the significand; g is the last bit shifted out, st
\* records whether any bit shifted out before it was set
ShiftR1(s) ==
  [hi |-> s.hi \div 2,
   lo |-> (s.lo \div 2) + (s.hi % 2) * HalfLimb,
   g  |-> s.lo % 2,
   st |-> IF s.g = 1 \/ s.st = 1 THEN 1 ELSE 0]

RECURSIVE ShiftR(_, _)
ShiftR(s, d) == IF d = 0 THEN s ELSE ShiftR(ShiftR1(s), d - 1)

\* round a 53-bit significand with guard bit g and sticky bit st
RoundNearestEven(hi, lo, g, st, e) ==
  LET up == g = 1 /\ (st = 1 \/ lo % 2 = 1)
      lo1 == IF up THEN lo + 1 ELSE lo
      hi1 == IF lo1 = Limb THEN hi + 1 ELSE hi
      lo2 == IF lo1 = Limb THEN 0 ELSE lo1
  IN IF hi1 = HiTop
       THEN [hi |-> Limb, lo |-> 0, e |-> e + 1]
       ELSE [hi |-> hi1, lo |-> lo2, e |-> e]

\* x + y
FAdd(x, y) ==
  IF FIsZero(x) THEN y
  ELSE IF FIsZero(y) THEN x
  ELSE LET a == IF x.e >= y.e THEN x ELSE y
           b == IF x.e >= y.e THEN y ELSE x
           d == a.e - b.e
           sb == IF d > 2 * LimbBits + 3
                   THEN [hi |-> 0, lo |-> 0, g |-> 0, st |-> 1]
                   ELSE ShiftR([hi |-> b.hi, lo |-> b.lo, g |-> 0, st |-> 0], d)
           los == a.lo + sb.lo
           lo == los % Limb
           hi == a.hi + sb.hi + (los \div Limb)
       IN IF hi >= HiTop
            THEN LET s2 == ShiftR1([hi |-> hi, lo |-> lo, g |-> sb.g, st |-> sb.st])
                 IN RoundNearestEven(s2.hi, s2.lo, s2.g, s2.st, a.e + 1)
            ELSE RoundNearestEven(hi, lo, sb.g, sb.st, a.e)

\* x < y, x <= y, x > y
FLess(x, y) ==
  IF FIsZero(y) THEN FALSE
  ELSE IF FIsZero(x) THEN TRUE
  ELSE \/ x.e < y.e
       \/ x.e = y.e /\ x.hi < y.hi
       \/ x.e = y.e /\ x.hi = y.hi /\ x.lo < y.lo

FLeq(x, y) == ~FLess(y, x)

FGreater(x, y) == FLess(y, x)

\* long division n / den, one quotient bit per step, until the significand
\* has 53 bits; then the next bit is the guard and the remainder the sticky
RECURSIVE DivBits(_, _, _, _, _)
DivBits(hi, lo, e, r, den) ==
  IF hi >= Limb
    THEN RoundNearestEven(hi, lo, IF 2 * r >= den THEN 1 ELSE 0,
                          IF (2 * r) % den # 0 THEN 1 ELSE 0, e)
    ELSE LET bit == IF 2 * r >= den THEN 1 ELSE 0
         IN DivBits(2 * hi + (lo \div HalfLimb), ((2 * lo) % Limb) + bit, e - 1,
                    2 * r - bit * den, den)

\* the number n / den for naturals n and den > 0 (n below 2^26)
FDiv(n, den) ==
  IF n = 0 THEN F0 ELSE DivBits(0, n \div den, 0, n % den, den)

\* grams / 1000; the quotients of whole hectograms are computed once
KgOfHectograms == [k \in 0..100 |-> FDiv(100 * k, 1000)]

KgOfGrams(g) ==
  IF g % 100 = 0 /\ g \div 100 \in DOMAIN KgOfHectograms
    THEN KgOfHectograms[g \div 100]
    ELSE FDiv(g, 1000)

\* the integer n as a number
FInt(n) == FDiv(n, 1)

\* ------------------------------------------------------------------------
\* optional values: None is an absent (undefined) field, Some(v) a present one
\* ------------------------------------------------------------------------
None == << >>
Some(v) == << v >>
IsSome(o) == o # << >>
Val(o) == o[1]

\* ------------------------------------------------------------------------
\* box-selection.ts
\* ------------------------------------------------------------------------

\* variant of SortDims that keeps the order of the argument
SortDimsKeepOrder(d) == d

\* [...dims].sort((a, b) => a - b) on three numbers
SortDims(d) ==
  LET a == d[1]
      b == d[2]
      c == d[3]
      lo == IF a <= b /\ a <= c THEN a ELSE IF b <= c THEN b ELSE c
      hi == IF a >= b /\ a >= c THEN a ELSE IF b >= c THEN b ELSE c
  IN << lo, (a + b + c) - (lo + hi), hi >>

volumeCm3(d) == d.length_cm * d.width_cm * d.height_cm

BoxVolume(box) == box.inner_cm.length * box.inner_cm.width * box.inner_cm.height

\* typeof anyItem?.quantity === 'number' ? anyItem.quantity : 1
ItemQuantity(item) == IF IsSome(item.quantity) THEN Val(item.quantity) ELSE 1

\* variant of ItemGrams that reads the item's own variant and product first
ItemGramsOwnFirst(item) ==
  LET w1 == IF IsSome(item.line_item) /\ IsSome(Val(item.line_item).variant)
              THEN Val(Val(item.line_item).variant).weight ELSE None
      w2 == IF IsSome(item.line_item) /\ IsSome(Val(item.line_item).product)
              THEN Val(Val(item.line_item).product).weight ELSE None
      w3 == IF IsSome(item.variant) THEN Val(item.variant).weight ELSE None
      w4 == IF IsSome(item.product) THEN Val(item.product).weight ELSE None
  IN IF IsSome(w3) THEN Val(w3)
     ELSE IF IsSome(w4) THEN Val(w4)
     ELSE IF IsSome(w1) THEN Val(w1)
     ELSE IF IsSome(w2) THEN Val(w2)
     ELSE 0

\* the weight in grams an item carries: line_item.variant.weight, then
\* line_item.product.weight, then variant.weight, else 0
ItemGrams(item) ==
  LET w1 == IF IsSome(item.line_item) /\ IsSome(Val(item.line_item).variant)
              THEN Val(Val(item.line_item).variant).weight ELSE None
      w2 == IF IsSome(item.line_item) /\ IsSome(Val(item.line_item).product)
              THEN Val(Val(item.line_item).product).weight ELSE None
      w3 == IF IsSome(item.variant) THEN Val(item.variant).weight ELSE None
  IN IF IsSome(w1) THEN Val(w1)
     ELSE IF IsSome(w2) THEN Val(w2)
     ELSE IF IsSome(w3) THEN Val(w3)
     ELSE 0

\* variant of getWeightGramsFromUnknownItem that leaves the quantity out
getWeightGramsOfOneUnit(item) == ItemGrams(item)

getWeightGramsFromUnknownItem(item) == ItemGrams(item) * ItemQuantity(item)

\* dimensions are read from line_item.variant when that object is present,
\* otherwise from variant; they count only when all three are numbers
getDimsCmFromUnknownItem(item) ==
  LET v == IF IsSome(item.line_item) /\ IsSome(Val(item.line_item).variant)
             THEN Val(item.line_item).variant
             ELSE item.variant
  IN [quantity |-> ItemQuantity(item),
      dims |-> IF IsSome(v) /\ IsSome(Val(v).dims)
                 THEN Some([length_cm |-> Val(Val(v).dims)[1],
                            width_cm  |-> Val(Val(v).dims)[2],
                            height_cm |-> Val(Val(v).dims)[3]])
                 ELSE None]

\* the units one item expands to
UnitOfItem(item) ==
  LET dims == getDimsCmFromUnknownItem(item).dims
  IN [weight_kg |-> KgOfGrams(ItemGrams(item)),
      dims |-> dims,
      volume_cm3 |-> IF IsSome(dims) THEN volumeCm3(Val(dims)) ELSE 0]

\* variant of ExpandUnits that ignores the quantity: one unit per item
RECURSIVE ExpandUnitsOnePerItem(_)
ExpandUnitsOnePerItem(items) ==
  IF items = << >> THEN << >>
  ELSE << UnitOfItem(Head(items)) >> \o ExpandUnitsOnePerItem(Tail(items))

RECURSIVE ExpandUnits(_)
ExpandUnits(items) ==
  IF items = << >> THEN << >>
  ELSE [i \in 1..ItemQuantity(Head(items)) |-> UnitOfItem(Head(items))]
         \o ExpandUnits(Tail(items))

\* units.sort((a, b) => b.volume_cm3 - a.volume_cm3): stable, volume descending
RECURSIVE InsertUnit(_, _)
InsertUnit(u, sorted) ==
  IF sorted = << >> THEN << u >>
  ELSE IF Head(sorted).volume_cm3 >= u.volume_cm3
         THEN << Head(sorted) >> \o InsertUnit(u, Tail(sorted))
         ELSE << u >> \o sorted

\* variant of SortUnits that keeps the order of the expansion
SortUnitsKeepOrder(us) == us

RECURSIVE SortUnits(_)
SortUnits(us) ==
  IF us = << >> THEN << >>
  ELSE InsertUnit(us[Len(us)], SortUnits(SubSeq(us, 1, Len(us) - 1)))

getUnitItems(items) ==
  [units |-> SortUnits(ExpandUnits(items)),
   hasItemDimensions |->
     \E i \in 1..Len(items) : IsSome(getDimsCmFromUnknownItem(items[i]).dims)]

\* [...boxes].sort((a, b) => va - vb): stable, interior volume ascending
RECURSIVE InsertBox(_, _)
InsertBox(b, sorted) ==
  IF sorted = << >> THEN << b >>
  ELSE IF BoxVolume(Head(sorted)) <= BoxVolume(b)
         THEN << Head(sorted) >> \o InsertBox(b, Tail(sorted))
         ELSE << b >> \o sorted

RECURSIVE SortBoxes(_)
SortBoxes(bs) ==
  IF bs = << >> THEN << >>
  ELSE InsertBox(bs[Len(bs)], SortBoxes(SubSeq(bs, 1, Len(bs) - 1)))

InnerSorted(box) ==
  SortDims(<< box.inner_cm.length, box.inner_cm.width, box.inner_cm.height >>)

UnitSorted(unit) ==
  SortDims(<< Val(unit.dims).length_cm, Val(unit.dims).width_cm,
              Val(unit.dims).height_cm >>)

\* variant of fitsUnitInBox that checks the weight only
fitsUnitInBoxByWeight(unit, box) ==
  ~(IsSome(box.max_weight_kg) /\ FGreater(unit.weight_kg, Val(box.max_weight_kg)))

fitsUnitInBox(unit, box) ==
  IF IsSome(box.max_weight_kg) /\ FGreater(unit.weight_kg, Val(box.max_weight_kg))
    THEN FALSE
  ELSE IF ~IsSome(unit.dims) THEN TRUE
  ELSE /\ UnitSorted(unit)[1] <= InnerSorted(box)[1]
       /\ UnitSorted(unit)[2] <= InnerSorted(box)[2]
       /\ UnitSorted(unit)[3] <= InnerSorted(box)[3]

\* variant of fitsUnitInPackage without the weight constraint
fitsUnitInPackageIgnoringWeight(unit, pkg, hasItemDimensions) ==
  IF ~hasItemDimensions THEN TRUE
  ELSE IF ~IsSome(unit.dims) THEN TRUE
  ELSE IF pkg.volume_cm3 + unit.volume_cm3 > BoxVolume(pkg.box) THEN FALSE
  ELSE /\ UnitSorted(unit)[1] <= InnerSorted(pkg.box)[1]
       /\ UnitSorted(unit)[2] <= InnerSorted(pkg.box)[2]
       /\ UnitSorted(unit)[3] <= InnerSorted(pkg.box)[3]

fitsUnitInPackage(unit, pkg, hasItemDimensions) ==
  IF /\ IsSome(pkg.box.max_weight_kg)
     /\ FGreater(FAdd(pkg.weight_kg, unit.weight_kg), Val(pkg.box.max_weight_kg))
    THEN FALSE
  ELSE IF ~hasItemDimensions THEN TRUE
  ELSE IF ~IsSome(unit.dims) THEN TRUE
  ELSE IF pkg.volume_cm3 + unit.volume_cm3 > BoxVolume(pkg.box) THEN FALSE
  ELSE /\ UnitSorted(unit)[1] <= InnerSorted(pkg.box)[1]
       /\ UnitSorted(unit)[2] <= InnerSorted(pkg.box)[2]
       /\ UnitSorted(unit)[3] <= InnerSorted(pkg.box)[3]

\* variant of FirstFitIndex that takes the last accepting package
LastFitIndex(unit, pkgs, hasItemDimensions) ==
  LET ok == {i \in 1..Len(pkgs) : fitsUnitInPackage(unit, pkgs[i], hasItemDimensions)}
  IN IF ok = {} THEN 0 ELSE CHOOSE i \in ok : \A j \in ok : i >= j

\* index of the first existing package that accepts the unit, 0 when none
FirstFitIndex(unit, pkgs, hasItemDimensions) ==
  LET ok == {i \in 1..Len(pkgs) : fitsUnitInPackage(unit, pkgs[i], hasItemDimensions)}
  IN IF ok = {} THEN 0 ELSE CHOOSE i \in ok : \A j \in ok : i <= j

\* variant of CandidateIndex that checks the weight only
CandidateIndexByWeight(unit, sortedBs) ==
  LET ok == {i \in 1..Len(sortedBs) :
               ~(IsSome(sortedBs[i].max_weight_kg)
                   /\ FGreater(unit.weight_kg, Val(sortedBs[i].max_weight_kg)))}
  IN IF ok = {} THEN 0 ELSE CHOOSE i \in ok : \A j \in ok : i <= j

\* sortedBoxes.find((b) => fitsUnitInBox(unit, b)): index, 0 when none
CandidateIndex(unit, sortedBs) ==
  LET ok == {i \in 1..Len(sortedBs) : fitsUnitInBox(unit, sortedBs[i])}
  IN IF ok = {} THEN 0 ELSE CHOOSE i \in ok : \A j \in ok : i <= j

NewPackage(box, unit) ==
  [box |-> box, weight_kg |-> unit.weight_kg, volume_cm3 |-> unit.volume_cm3,
   units |-> 1]

\* variant of PlaceUnit whose fallback takes the smallest box
PlaceUnitFallbackSmallest(acc, unit, sortedBs, hasItemDimensions) ==
  LET k == FirstFitIndex(unit, acc.packages, hasItemDimensions)
      c == CandidateIndex(unit, sortedBs)
  IN IF k # 0
       THEN [acc EXCEPT !.packages[k] =
               [box |-> @.box,
                weight_kg |-> FAdd(@.weight_kg, unit.weight_kg),
                volume_cm3 |-> @.volume_cm3 + unit.volume_cm3,
                units |-> @.units + 1]]
     ELSE IF c # 0
       THEN [acc EXCEPT !.packages = Append(@, NewPackage(sortedBs[c], unit))]
     ELSE IF Len(sortedBs) > 0
       THEN [acc EXCEPT !.packages = Append(@, NewPackage(sortedBs[1], unit)),
                        !.usedFallbackLargest = TRUE]
     ELSE [acc EXCEPT !.unplacedUnits = @ + 1]

\* one iteration of the loop over units; acc holds packages, unplacedUnits
\* and usedFallbackLargest
PlaceUnit(acc, unit, sortedBs, hasItemDimensions) ==
  LET k == FirstFitIndex(unit, acc.packages, hasItemDimensions)
      c == CandidateIndex(unit, sortedBs)
  IN IF k # 0
       THEN [acc EXCEPT !.packages[k] =
               [box |-> @.box,
                weight_kg |-> FAdd(@.weight_kg, unit.weight_kg),
                volume_cm3 |-> @.volume_cm3 + unit.volume_cm3,
                units |-> @.units + 1]]
     ELSE IF c # 0
       THEN [acc EXCEPT !.packages = Append(@, NewPackage(sortedBs[c], unit))]
     ELSE IF Len(sortedBs) > 0
       THEN [acc EXCEPT !.packages = Append(@, NewPackage(sortedBs[Len(sortedBs)], unit)),
                        !.usedFallbackLargest = TRUE]
     ELSE [acc EXCEPT !.unplacedUnits = @ + 1]

RECURSIVE SumGrams(_)
SumGrams(items) ==
  IF items = << >> THEN 0
  ELSE SumGrams(SubSeq(items, 1, Len(items) - 1))
         + getWeightGramsFromUnknownItem(items[Len(items)])

\* items.reduce((sum, it) => sum + getWeightGramsFromUnknownItem(it), 0) / 1000
TotalWeightKg(items) == KgOfGrams(SumGrams(items))

RECURSIVE PackLoop(_, _, _, _)
PackLoop(acc, us, sortedBs, hasItemDimensions) ==
  IF us = << >> THEN acc
  ELSE PackLoop(PlaceUnit(acc, Head(us), sortedBs, hasItemDimensions), Tail(us),
                sortedBs, hasItemDimensions)

\* the returned value, lines 186-196 (no box configured) and 245-256
PackResult(its, sortedBs, u, acc) ==
  IF sortedBs = << >>
    THEN [packages |-> << >>,
          total_weight_kg |-> TotalWeightKg(its),
          diagnostics |-> [has_item_dimensions |-> u.hasItemDimensions,
                           used_fallback_largest |-> TRUE,
                           unplaced_units |-> Len(u.units)]]
    ELSE [packages |-> acc.packages,
          total_weight_kg |-> TotalWeightKg(its),
          diagnostics |-> [has_item_dimensions |-> u.hasItemDimensions,
                           used_fallback_largest |->
                             (\/ acc.usedFallbackLargest
                              \/ /\ u.hasItemDimensions
                                 /\ \E i \in 1..Len(u.units) : ~IsSome(u.units[i].dims)),
                           unplaced_units |-> acc.unplacedUnits]]

\* the loop over the units, lines 198-243
PackUnits(its, sortedBs, u) ==
  PackResult(its, sortedBs, u,
             PackLoop([packages |-> << >>, unplacedUnits |-> 0,
                       usedFallbackLargest |-> FALSE],
                      u.units, sortedBs, u.hasItemDimensions))

\* the whole function, lines 175-257
packItemsIntoBoxes(its, bs) == PackUnits(its, SortBoxes(bs), getUnitItems(its))

\* the items that declare dimensions (dimsOnly, by index)
ItemsWithDims(its) ==
  {i \in 1..Len(its) : IsSome(getDimsCmFromUnknownItem(its[i]).dims)}

\* dimsWithQty.reduce(...): volume times quantity over the items with dimensions
RECURSIVE TotalVolume(_)
TotalVolume(its) ==
  IF its = << >> THEN 0
  ELSE TotalVolume(SubSeq(its, 1, Len(its) - 1))
         + (LET d == getDimsCmFromUnknownItem(its[Len(its)])
            IN IF IsSome(d.dims) THEN volumeCm3(Val(d.dims)) * d.quantity ELSE 0)

MaxOf(S) == CHOOSE x \in S : \A y \in S : y <= x

\* sortDims of the largest length, width and height among the items
MaxDimsSorted(its) ==
  LET D == ItemsWithDims(its)
  IN SortDims(<< MaxOf({Val(getDimsCmFromUnknownItem(its[i]).dims).length_cm : i \in D}),
                 MaxOf({Val(getDimsCmFromUnknownItem(its[i]).dims).width_cm : i \in D}),
                 MaxOf({Val(getDimsCmFromUnknownItem(its[i]).dims).height_cm : i \in D}) >>)

\* the closure fits of selectBoxForItems, lines 298-312
fits(box, its) ==
  IF IsSome(box.max_weight_kg) /\ FGreater(TotalWeightKg(its), Val(box.max_weight_kg))
    THEN FALSE
  ELSE IF ItemsWithDims(its) # {}
    THEN /\ MaxDimsSorted(its)[1] <= InnerSorted(box)[1]
         /\ MaxDimsSorted(its)[2] <= InnerSorted(box)[2]
         /\ MaxDimsSorted(its)[3] <= InnerSorted(box)[3]
         /\ ~(TotalVolume(its) > BoxVolume(box))
  ELSE TRUE

\* variant of FirstFittingBox that takes the last box that fits
LastFittingBox(its, boxCandidates) ==
  LET ok == {i \in 1..Len(boxCandidates) : fits(boxCandidates[i], its)}
  IN IF ok = {} THEN 0 ELSE CHOOSE i \in ok : \A j \in ok : i >= j

\* boxCandidates.find(fits): index, 0 when none
FirstFittingBox(its, boxCandidates) ==
  LET ok == {i \in 1..Len(boxCandidates) : fits(boxCandidates[i], its)}
  IN IF ok = {} THEN 0 ELSE CHOOSE i \in ok : \A j \in ok : i <= j

\* the returned value, lines 314-330
BoxSelectionResult(its, boxCandidates, k) ==
  [selectedBox |-> IF k # 0 THEN Some(boxCandidates[k])
                   ELSE IF boxCandidates # << >>
                     THEN Some(boxCandidates[Len(boxCandidates)])
                   ELSE None,
   total_weight_kg |-> TotalWeightKg(its),
   has_item_dimensions |-> ItemsWithDims(its) # {},
   used_fallback_largest |-> k = 0]

SelectAmong(its, boxCandidates) ==
  BoxSelectionResult(its, boxCandidates, FirstFittingBox(its, boxCandidates))

\* the whole function, lines 269-331
selectBoxForItems(its, bs) == SelectAmong(its, SortBoxes(bs))

\* ------------------------------------------------------------------------
\* get-fulfillment-options.ts
\* ------------------------------------------------------------------------

\* a string that JavaScript treats as true: neither undefined nor empty
Truthy(str) == str # Undefined /\ str # ""

\* [...parcelTypes].sort((a, b) => a.max_weight_kg - b.max_weight_kg): stable
RECURSIVE InsertParcelType(_, _)
InsertParcelType(pt, sorted) ==
  IF sorted = << >> THEN << pt >>
  ELSE IF FLeq(Head(sorted).max_weight_kg, pt.max_weight_kg)
         THEN << Head(sorted) >> \o InsertParcelType(pt, Tail(sorted))
         ELSE << pt >> \o sorted

\* variant of SortParcelTypes that keeps the order of the argument
SortParcelTypesKeepOrder(pts) == pts

RECURSIVE SortParcelTypes(_)
SortParcelTypes(pts) ==
  IF pts = << >> THEN << >>
  ELSE InsertParcelType(pts[Len(pts)], SortParcelTypes(SubSeq(pts, 1, Len(pts) - 1)))

\* variant of selectOptimalParcelType with an exclusive upper bound
selectOptimalParcelTypeExclusiveMax(parcelTypes, weightKg) ==
  LET sorted == SortParcelTypes(parcelTypes)
      ok == {i \in 1..Len(sorted) :
               FLeq(sorted[i].min_weight_kg, weightKg)
                 /\ FLess(weightKg, sorted[i].max_weight_kg)}
  IN IF ok = {} THEN Undefined
     ELSE sorted[CHOOSE i \in ok : \A j \in ok : i <= j].key

selectOptimalParcelType(parcelTypes, weightKg) ==
  LET sorted == SortParcelTypes(parcelTypes)
      ok == {i \in 1..Len(sorted) :
               FLeq(sorted[i].min_weight_kg, weightKg)
                 /\ FLeq(weightKg, sorted[i].max_weight_kg)}
  IN IF ok = {} THEN Undefined
     ELSE sorted[CHOOSE i \in ok : \A j \in ok : i <= j].key

\* [a, b, c].sort((x, y) => x - y)
sort3(a, b, c) ==
  LET lo == IF a <= b /\ a <= c THEN a ELSE IF b <= c THEN b ELSE c
      hi == IF a >= b /\ a >= c THEN a ELSE IF b >= c THEN b ELSE c
  IN << lo, (a + b + c) - (lo + hi), hi >>

dimsFit(capDims, pkgDims) ==
  IF ~IsSome(capDims) \/ ~IsSome(pkgDims) THEN TRUE
  ELSE LET cap == sort3(Val(capDims).maxLengthCm, Val(capDims).maxWidthCm,
                        Val(capDims).maxHeightCm)
           pkg == sort3(Val(pkgDims).length, Val(pkgDims).width, Val(pkgDims).height)
       IN pkg[1] <= cap[1] /\ pkg[2] <= cap[2] /\ pkg[3] <= cap[3]

\* [...relevant].sort((a, b) => a.parcelType.maxWeightKg - b.parcelType.maxWeightKg)
RECURSIVE InsertCapability(_, _)
InsertCapability(c, sorted) ==
  IF sorted = << >> THEN << c >>
  ELSE IF FLeq(Head(sorted).parcelType.maxWeightKg, c.parcelType.maxWeightKg)
         THEN << Head(sorted) >> \o InsertCapability(c, Tail(sorted))
         ELSE << c >> \o sorted

RECURSIVE SortCapabilities(_)
SortCapabilities(cs) ==
  IF cs = << >> THEN << >>
  ELSE InsertCapability(cs[Len(cs)], SortCapabilities(SubSeq(cs, 1, Len(cs) - 1)))

\* capabilities.filter((c) => c.product.key === productKey)
RECURSIVE FilterProduct(_, _)
FilterProduct(cs, productKey) ==
  IF cs = << >> THEN << >>
  ELSE (IF Head(cs).product.key = productKey THEN << Head(cs) >> ELSE << >>)
         \o FilterProduct(Tail(cs), productKey)

FMax(x, y) == IF FLess(x, y) THEN y ELSE x

\* Math.max(...packages.map((p) => p.weight_kg || 0)) for a non-empty list
RECURSIVE MaxPackageWeight(_)
MaxPackageWeight(pkgs) ==
  IF Len(pkgs) = 1 THEN pkgs[1].weight_kg
  ELSE FMax(pkgs[1].weight_kg, MaxPackageWeight(Tail(pkgs)))

\* variant of MaxPackageWeight: the total weight of the packages
RECURSIVE SumOfPackageWeights(_)
SumOfPackageWeights(pkgs) ==
  IF Len(pkgs) = 1 THEN pkgs[1].weight_kg
  ELSE FAdd(pkgs[1].weight_kg, SumOfPackageWeights(Tail(pkgs)))

Max(S) == CHOOSE x \in S : \A y \in S : y <= x

\* variant of MaxDims that looks at the first package only
MaxDimsOfFirstPackage(pkgs) ==
  IF pkgs = << >> \/ ~IsSome(pkgs[1].dimensions_cm) THEN None
  ELSE Some([length |-> Val(pkgs[1].dimensions_cm).length,
             width  |-> Val(pkgs[1].dimensions_cm).width,
             height |-> Val(pkgs[1].dimensions_cm).height])

\* the componentwise maximum over the packages that declare dimensions
MaxDims(pkgs) ==
  LET withDims == {i \in 1..Len(pkgs) : IsSome(pkgs[i].dimensions_cm)}
  IN IF withDims = {} THEN None
     ELSE Some([length |-> Max({Val(pkgs[i].dimensions_cm).length : i \in withDims}),
                width  |-> Max({Val(pkgs[i].dimensions_cm).width : i \in withDims}),
                height |-> Max({Val(pkgs[i].dimensions_cm).height : i \in withDims})])

\* the predicate of sorted.find(...)
Suitable(c, maxWeightKg, maxDims) ==
  /\ FGreater(maxWeightKg, F0)
       => ~(FLess(maxWeightKg, c.parcelType.minWeightKg)
              \/ FGreater(maxWeightKg, c.parcelType.maxWeightKg))
  /\ dimsFit(c.parcelType.dimensions, maxDims)

\* selectParcelTypeForPackagesFromCapabilities with the weight to validate given
SelectForWeight(capabilities, productKey, packages, maxWeightKg) ==
  LET relevant == IF Truthy(productKey) THEN FilterProduct(capabilities, productKey)
                  ELSE capabilities
      sorted == SortCapabilities(relevant)
      ok == {i \in 1..Len(sorted) : Suitable(sorted[i], maxWeightKg, MaxDims(packages))}
  IN IF ok = {} THEN Undefined
     ELSE sorted[CHOOSE i \in ok : \A j \in ok : i <= j].parcelType.key

\* variant that validates the total weight of the packages
selectParcelTypeForTotalWeight(capabilities, productKey, packages) ==
  IF capabilities = << >> \/ packages = << >> THEN Undefined
  ELSE SelectForWeight(capabilities, productKey, packages, SumOfPackageWeights(packages))

selectParcelTypeForPackagesFromCapabilities(capabilities, productKey, packages) ==
  IF capabilities = << >> \/ packages = << >> THEN Undefined
  ELSE SelectForWeight(capabilities, productKey, packages, MaxPackageWeight(packages))

\* ------------------------------------------------------------------------
\* parcel-type resolution in the callers
\* ------------------------------------------------------------------------

\* capabilities.filter(product).map(...) : the tiers of one product
RECURSIVE ParcelTypesOfProduct(_, _)
ParcelTypesOfProduct(cs, productKey) ==
  IF cs = << >> THEN << >>
  ELSE (IF Head(cs).product.key = productKey
          THEN << [key |-> Head(cs).parcelType.key,
                   min_weight_kg |-> Head(cs).parcelType.minWeightKg,
                   max_weight_kg |-> Head(cs).parcelType.maxWeightKg] >>
          ELSE << >>)
         \o ParcelTypesOfProduct(Tail(cs), productKey)

\* variant of DefaultParcelType without the literal 'SMALL'
DefaultParcelTypeFromCatalog(cs, productKey) ==
  LET own == FilterProduct(cs, productKey)
  IN IF own # << >> THEN own[1].parcelType.key
     ELSE IF cs # << >> THEN cs[1].parcelType.key
     ELSE Undefined

\* capabilities.find((c) => c.product.key === productKey)?.parcelType.key
\*   ?? capabilities[0]?.parcelType.key ?? 'SMALL'
DefaultParcelType(cs, productKey) ==
  LET own == FilterProduct(cs, productKey)
  IN IF own # << >> THEN own[1].parcelType.key
     ELSE IF cs # << >> THEN cs[1].parcelType.key
     ELSE "SMALL"

\* explicitProductKey ?? door ?? capabilities[0]?.product.key
ProviderProductKey(cs, explicitKey) ==
  IF explicitKey # Undefined THEN explicitKey
  ELSE IF \E i \in 1..Len(cs) : cs[i].product.key = "DOOR" THEN "DOOR"
  ELSE IF cs # << >> THEN cs[1].product.key
  ELSE Undefined

\* shippingOption.data?.carrier_code?.toString() || 'DOOR'
WorkflowProduct(carrierCode) == IF Truthy(carrierCode) THEN carrierCode ELSE "DOOR"

\* packing.packages.map(...) or the single weight-only entry
PackagesForSelection(pkgs, totalKg) ==
  IF Len(pkgs) > 0
    THEN [i \in 1..Len(pkgs) |->
            [weight_kg |-> pkgs[i].weight_kg,
             dimensions_cm |-> Some([length |-> pkgs[i].box.inner_cm.length,
                                     width  |-> pkgs[i].box.inner_cm.width,
                                     height |-> pkgs[i].box.inner_cm.height])]]
    ELSE << [weight_kg |-> totalKg, dimensions_cm |-> None] >>

\* createFulfillment: lineItem?.variant?.weight ?? lineItem?.product?.weight ?? 0,
\* times item.quantity ?? 1
FulfillmentItemGrams(item) ==
  LET li == item.line_item
      w1 == IF IsSome(li) /\ IsSome(Val(li).variant) THEN Val(Val(li).variant).weight ELSE None
      w2 == IF IsSome(li) /\ IsSome(Val(li).product) THEN Val(Val(li).product).weight ELSE None
      w == IF IsSome(w1) THEN Val(w1) ELSE IF IsSome(w2) THEN Val(w2) ELSE 0
  IN w * (IF IsSome(item.quantity) THEN Val(item.quantity) ELSE 1)

\* getItemWeightGrams of the provider, used by calculatePrice
getItemWeightGrams(item) ==
  LET li == item.line_item
      wv == IF IsSome(item.variant) THEN Val(item.variant).weight ELSE None
      wp == IF IsSome(item.product) THEN Val(item.product).weight ELSE None
      w1 == IF IsSome(li) /\ IsSome(Val(li).variant) THEN Val(Val(li).variant).weight ELSE None
      w2 == IF IsSome(li) /\ IsSome(Val(li).product) THEN Val(Val(li).product).weight ELSE None
      w == IF IsSome(wv) THEN Val(wv) ELSE IF IsSome(wp) THEN Val(wp)
           ELSE IF IsSome(w1) THEN Val(w1) ELSE IF IsSome(w2) THEN Val(w2) ELSE 0
      q == IF IsSome(item.quantity) THEN Val(item.quantity)
           ELSE IF IsSome(li) /\ IsSome(Val(li).quantity) THEN Val(Val(li).quantity)
           ELSE 1
  IN w * (IF q = 0 THEN 1 ELSE q)

\* createDhlShipment: anyItem.variant?.weight ?? 0, times item.quantity || 1
WorkflowItemGrams(item) ==
  LET w == IF IsSome(item.variant) /\ IsSome(Val(item.variant).weight)
             THEN Val(Val(item.variant).weight) ELSE 0
      q == IF IsSome(item.quantity) /\ Val(item.quantity) # 0 THEN Val(item.quantity) ELSE 1
  IN w * q

RECURSIVE SumFulfillmentGrams(_)
SumFulfillmentGrams(its) ==
  IF its = << >> THEN 0
  ELSE SumFulfillmentGrams(SubSeq(its, 1, Len(its) - 1)) + FulfillmentItemGrams(its[Len(its)])

RECURSIVE SumPriceGrams(_)
SumPriceGrams(its) ==
  IF its = << >> THEN 0
  ELSE SumPriceGrams(SubSeq(its, 1, Len(its) - 1)) + getItemWeightGrams(its[Len(its)])

RECURSIVE SumWorkflowGrams(_)
SumWorkflowGrams(its) ==
  IF its = << >> THEN 0
  ELSE SumWorkflowGrams(SubSeq(its, 1, Len(its) - 1)) + WorkflowItemGrams(its[Len(its)])

\* variant of ResolveProvider that tries the weight-only selection first
ResolveProviderWeightFirst(cs, productKey, pkgsForSelection, totalKg, finalGuard) ==
  LET weightOnly == IF Truthy(productKey) /\ FGreater(totalKg, F0)
                      THEN selectOptimalParcelType(ParcelTypesOfProduct(cs, productKey), totalKg)
                      ELSE Undefined
      constrained == selectParcelTypeForPackagesFromCapabilities(cs, productKey, pkgsForSelection)
      p2 == IF Truthy(weightOnly) THEN weightOnly ELSE constrained
  IN [byConstraints |-> constrained, optimal |-> weightOnly,
      parcelType |-> IF Truthy(p2) THEN p2 ELSE DefaultParcelType(cs, productKey)]

\* the provider's chain (createFulfillment lines 832-869, calculatePrice lines
\* 589-621); finalGuard is the re-check that only createFulfillment makes
ResolveProvider(cs, productKey, pkgsForSelection, totalKg, finalGuard) ==
  LET constrained == selectParcelTypeForPackagesFromCapabilities(cs, productKey, pkgsForSelection)
      weightOnly == IF ~Truthy(constrained) /\ Truthy(productKey) /\ FGreater(totalKg, F0)
                      THEN selectOptimalParcelType(ParcelTypesOfProduct(cs, productKey), totalKg)
                      ELSE Undefined
      p2 == IF ~Truthy(constrained) /\ Truthy(weightOnly) THEN weightOnly ELSE constrained
      p3 == IF ~Truthy(p2) THEN DefaultParcelType(cs, productKey) ELSE p2
      p4 == IF /\ finalGuard
               /\ Truthy(productKey)
               /\ ~\E i \in 1..Len(cs) :
                     cs[i].product.key = productKey /\ cs[i].parcelType.key = p3
              THEN DefaultParcelType(cs, productKey)
              ELSE p3
  IN [byConstraints |-> constrained, optimal |-> weightOnly, parcelType |-> p4]

\* the workflow's chain, lines 193-215
ResolveWorkflow(cs, dhlProduct, pkgsForSelection, totalKg) ==
  LET constrained == selectParcelTypeForPackagesFromCapabilities(cs, dhlProduct, pkgsForSelection)
      parcelTypes == ParcelTypesOfProduct(cs, dhlProduct)
      weightOnly == IF Len(parcelTypes) > 0 THEN selectOptimalParcelType(parcelTypes, totalKg)
                    ELSE Undefined
  IN [byConstraints |-> constrained, optimal |-> weightOnly,
      parcelType |-> IF constrained # Undefined THEN constrained
                     ELSE IF weightOnly # Undefined THEN weightOnly
                     ELSE DefaultParcelType(cs, dhlProduct)]

\* one piece per package
PiecesOfPackages(pkgs, parcelKey) ==
  [i \in 1..Len(pkgs) |->
     [parcelType |-> parcelKey, quantity |-> 1, weight |-> Some(pkgs[i].weight_kg),
      dimensions |-> Some([length |-> pkgs[i].box.inner_cm.length,
                           width  |-> pkgs[i].box.inner_cm.width,
                           height |-> pkgs[i].box.inner_cm.height])]]

SinglePiece(parcelKey, weight) ==
  << [parcelType |-> parcelKey, quantity |-> 1, weight |-> weight, dimensions |-> None] >>

\* the permutations of three positions
Perms3 == {p \in [1..3 -> 1..3] : \A i, j \in 1..3 : i # j => p[i] # p[j]}

Permute(t, p) == << t[p[1]], t[p[2]], t[p[3]] >>

\* ------------------------------------------------------------------------
\* inputs
\* ------------------------------------------------------------------------
MaxItems == 2
MaxQuantity == 3
MaxBoxes == 2

SeqsUpTo(S, n) == UNION {[1..k -> S] : k \in 0..n}

Quantities == {None} \cup {Some(q) : q \in 2..MaxQuantity}

\* a fulfillment item as the provider passes it (line_item.variant) ...
ProviderItem(q, w, d) ==
  [quantity |-> q,
   line_item |-> Some([variant |-> Some([weight |-> w, dims |-> d]), product |-> None,
                       quantity |-> None]),
   variant |-> None,
   product |-> None]

\* ... and as the workflow passes it (variant)
WorkflowItem(q, w, d) ==
  [quantity |-> q, line_item |-> None, variant |-> Some([weight |-> w, dims |-> d]),
   product |-> None]

\* items without dimensions of 100 g and 500 g in every quantity, single items
\* with dimensions with and without a weight, one workflow-shaped item and one
\* item that declares neither weight nor dimensions, and one of quantity 0
ItemPool ==
  {ProviderItem(q, Some(w), None) : q \in Quantities, w \in {100, 500}}
    \cup {ProviderItem(None, w, Some(d)) :
            w \in {None, Some(500)}, d \in {<< 10, 20, 5 >>, << 30, 30, 30 >>}}
    \cup {WorkflowItem(Some(2), Some(500), Some(<< 10, 20, 5 >>)),
          ProviderItem(None, None, None),
          ProviderItem(Some(0), Some(500), Some(<< 10, 20, 5 >>))}

Box(dims, maxGrams) ==
  [inner_cm |-> [length |-> dims[1], width |-> dims[2], height |-> dims[3]],
   max_weight_kg |-> IF IsSome(maxGrams) THEN Some(KgOfGrams(Val(maxGrams))) ELSE None]

BoxPool ==
  {Box(<< 20, 10, 6 >>, Some(300)), Box(<< 20, 20, 20 >>, Some(1000)),
   Box(<< 20, 20, 20 >>, None), Box(<< 40, 40, 40 >>, Some(1000))}

\* tiers and capability entries
ParcelType(key, minKg, maxKg) ==
  [key |-> key, min_weight_kg |-> FInt(minKg), max_weight_kg |-> FInt(maxKg)]

ParcelTypePool ==
  {ParcelType("SMALL", 0, 2), ParcelType("MEDIUM", 2, 10), ParcelType("LARGE", 10, 30),
   ParcelType("S", 0, 5), ParcelType("L", 5, 10)}

WeightPool == {F0, FInt(1), FInt(2), FInt(7), FInt(10), FInt(30), FInt(31)}

Capability(product, key, minKg, maxKg, dims) ==
  [product |-> [key |-> product, monoColloProduct |-> FALSE],
   parcelType |-> [key |-> key, minWeightKg |-> FInt(minKg), maxWeightKg |-> FInt(maxKg),
                   dimensions |-> IF IsSome(dims)
                                    THEN Some([maxLengthCm |-> Val(dims)[1],
                                               maxWidthCm  |-> Val(dims)[2],
                                               maxHeightCm |-> Val(dims)[3]])
                                    ELSE None]]

CapabilityPool ==
  {Capability(p, "S", 0, 5, d) : p \in {"DOOR", "X"}, d \in {None, Some(<< 30, 20, 20 >>)}}
    \cup {Capability(p, "L", 5, 10, d) : p \in {"DOOR", "X"}, d \in {None, Some(<< 30, 20, 20 >>)}}

\* the catalog of a label request: a product "M" that is mono-collo besides
LabelCapabilityPool ==
  CapabilityPool
    \cup {[Capability("M", "S", 0, 5, None) EXCEPT !.product.monoColloProduct = TRUE]}

PackageConstraints(kg, dims) ==
  [weight_kg |-> FInt(kg),
   dimensions_cm |-> IF IsSome(dims)
                       THEN Some([length |-> Val(dims)[1], width |-> Val(dims)[2],
                                  height |-> Val(dims)[3]])
                       ELSE None]

PackagePool ==
  {PackageConstraints(kg, d) : kg \in {0, 3, 7}, d \in {None, Some(<< 20, 20, 30 >>)}}

MaxTiers == 3
MaxCapabilities == 2
MaxPackages == 2

DimValues == {5, 6, 10, 20}

\* the item lists and box lists of the label requests
LabelItemLists ==
  {<< >>,
   << ProviderItem(Some(3), Some(500), None) >>,
   << ProviderItem(None, None, Some(<< 30, 30, 30 >>)) >>,
   << WorkflowItem(Some(2), Some(500), Some(<< 10, 20, 5 >>)) >>,
   << ProviderItem(Some(2), Some(3000), None) >>,
   << ProviderItem(Some(3), Some(500), None),
      ProviderItem(None, Some(500), Some(<< 10, 20, 5 >>)) >>}

LabelBoxLists ==
  {<< >>,
   << Box(<< 20, 20, 20 >>, Some(1000)) >>,
   << Box(<< 40, 40, 40 >>, None), Box(<< 20, 10, 6 >>, Some(300)) >>}

\* ------------------------------------------------------------------------
\* state
\* ------------------------------------------------------------------------
VARIABLES
  pc,                 \* position of the running call
  items, boxes,       \* arguments of packItemsIntoBoxes, and of a label request
  totalWeightKg, sortedBoxes, units, hasItemDimensions,
  idx,                \* index of the unit the packing loop is at
  packages, unplacedUnits, usedFallbackLargest,
  fitFn, fitUnit, fitContainer, fitResult,
  selFn, parcelTypes, weightKg, capabilities, productKey, selPackages, selResult,
  caller, fetchFails, byConstraints, optimal, parcelType, pieces,
  selection,          \* result of selectBoxForItems
  settings, headers, body,   \* what getCredentials returned, and the request
  storedFulfillments,        \* the fulfillments the store holds
  fulfillments, matching,    \* the query's result and the handler's filter of it
  status,                    \* the response status sent, 0 while none is
  workflow,                  \* updateFulfillmentStatusWorkflow: none, running, ...
  dhlSettings,        \* the rows of the dhl_setting table
  readFails,          \* the read of the table throws
  dbRead,             \* what the credentials workflow returned
  options, credVersion, credResult,
  cachedToken,        \* auth.ts: the module-level token cache
  clock,              \* Date.now()
  authCalls,          \* the getAccessToken calls: credentials, position, token
  trackings,          \* the rows of the dhl_tracking table
  dryRun, pendingRows, rowIdx, trackedState, synced, updated,
  marked              \* the fulfillments marked shipped or delivered by the run

packVars == << items, boxes, totalWeightKg, sortedBoxes, units,
               hasItemDimensions, idx, packages, unplacedUnits,
               usedFallbackLargest >>

fitVars == << fitFn, fitUnit, fitContainer, fitResult >>

selVars == << selFn, parcelTypes, weightKg, capabilities, productKey, selPackages,
              selResult >>

labelVars == << caller, fetchFails, byConstraints, optimal, parcelType, pieces >>

boxVars == << selection >>

hookVars == << settings, headers, body, storedFulfillments, fulfillments, matching,
               status, workflow >>

credVars == << dhlSettings, readFails, dbRead, options, credVersion, credResult >>

authVars == << cachedToken, clock, authCalls >>

syncVars == << trackings, dryRun, pendingRows, rowIdx, trackedState, synced, updated, marked >>

restVars == << boxVars, hookVars, credVars, authVars, syncVars >>

vars == << pc, packVars, fitVars, selVars, labelVars, restVars >>

\* the parts of the state a specification does not use
PackIdle ==
  /\ totalWeightKg = F0
  /\ sortedBoxes = << >>
  /\ units = << >>
  /\ hasItemDimensions = FALSE
  /\ idx = 0
  /\ packages = << >>
  /\ unplacedUnits = 0
  /\ usedFallbackLargest = FALSE

FitIdle ==
  /\ fitFn = Undefined
  /\ fitUnit = << >>
  /\ fitContainer = << >>
  /\ fitResult = None

SelIdle ==
  /\ selFn = Undefined
  /\ parcelTypes = << >>
  /\ weightKg = F0
  /\ selPackages = << >>
  /\ selResult = Undefined

LabelIdle ==
  /\ caller = Undefined
  /\ fetchFails = FALSE
  /\ byConstraints = Undefined
  /\ optimal = Undefined
  /\ parcelType = Undefined
  /\ pieces = << >>

BoxIdle == selection = None

HookIdle ==
  /\ settings = None
  /\ headers = << >>
  /\ body = None
  /\ storedFulfillments = {}
  /\ fulfillments = {}
  /\ matching = {}
  /\ status = 0
  /\ workflow = "none"

CredIdle ==
  /\ dhlSettings = << >>
  /\ readFails = FALSE
  /\ dbRead = None
  /\ options = None
  /\ credVersion = Undefined
  /\ credResult = None

AuthIdle ==
  /\ cachedToken = None
  /\ clock = 0
  /\ authCalls = << >>

SyncIdle ==
  /\ trackings = << >>
  /\ dryRun = FALSE
  /\ pendingRows = << >>
  /\ rowIdx = 0
  /\ trackedState = Undefined
  /\ synced = 0
  /\ updated = 0
  /\ marked = {}

RestIdle == BoxIdle /\ HookIdle /\ CredIdle /\ AuthIdle /\ SyncIdle

\* ------------------------------------------------------------------------
\* packItemsIntoBoxes, one action per step
\* ------------------------------------------------------------------------
PackInit ==
  /\ pc = "call"
  /\ items \in SeqsUpTo(ItemPool, MaxItems)
  /\ boxes \in SeqsUpTo(BoxPool, MaxBoxes)
  /\ PackIdle
  /\ FitIdle
  /\ SelIdle
  /\ capabilities = << >>
  /\ productKey = Undefined
  /\ LabelIdle
  /\ RestIdle

\* lines 176-184, and the early return of lines 186-196 when no box is configured
PackEnter ==
  /\ pc = "call"
  /\ totalWeightKg' = TotalWeightKg(items)
  /\ sortedBoxes' = SortBoxes(boxes)
  /\ units' = getUnitItems(items).units
  /\ hasItemDimensions' = getUnitItems(items).hasItemDimensions
  /\ IF SortBoxes(boxes) = << >>
       THEN /\ pc' = "returned"
            /\ usedFallbackLargest' = TRUE
            /\ unplacedUnits' = Len(units')
            /\ idx' = idx
       ELSE /\ pc' = "loop"
            /\ idx' = 1
            /\ UNCHANGED << usedFallbackLargest, unplacedUnits >>
  /\ UNCHANGED << items, boxes, packages, fitVars, selVars, labelVars, restVars >>

\* variant of PackUnit that counts a unit no package and no box takes as
\* unplaced instead of opening a package for it
PackUnitDropUnfit ==
  /\ pc = "loop"
  /\ idx <= Len(units)
  /\ IF /\ FirstFitIndex(units[idx], packages, hasItemDimensions) = 0
        /\ CandidateIndex(units[idx], sortedBoxes) = 0
       THEN /\ unplacedUnits' = unplacedUnits + 1
            /\ UNCHANGED << packages, usedFallbackLargest >>
       ELSE LET acc == PlaceUnit([packages |-> packages, unplacedUnits |-> unplacedUnits,
                                  usedFallbackLargest |-> usedFallbackLargest],
                                 units[idx], sortedBoxes, hasItemDimensions)
            IN /\ packages' = acc.packages
               /\ unplacedUnits' = acc.unplacedUnits
               /\ usedFallbackLargest' = acc.usedFallbackLargest
  /\ idx' = idx + 1
  /\ UNCHANGED << pc, items, boxes, totalWeightKg, sortedBoxes, units, hasItemDimensions,
                  fitVars, selVars, labelVars, restVars >>

\* lines 202-242: one iteration of `for (const unit of units)`
PackUnit ==
  /\ pc = "loop"
  /\ idx <= Len(units)
  /\ LET acc == PlaceUnit([packages |-> packages, unplacedUnits |-> unplacedUnits,
                           usedFallbackLargest |-> usedFallbackLargest],
                          units[idx], sortedBoxes, hasItemDimensions)
     IN /\ packages' = acc.packages
        /\ unplacedUnits' = acc.unplacedUnits
        /\ usedFallbackLargest' = acc.usedFallbackLargest
  /\ idx' = idx + 1
  /\ UNCHANGED << pc, items, boxes, totalWeightKg, sortedBoxes, units, hasItemDimensions,
                  fitVars, selVars, labelVars, restVars >>

\* variant of PackReturn that leaves the flag as the loop set it
PackReturnKeepFlag ==
  /\ pc = "loop"
  /\ idx > Len(units)
  /\ pc' = "returned"
  /\ UNCHANGED << items, boxes, totalWeightKg, sortedBoxes, units, hasItemDimensions,
                  idx, packages, unplacedUnits, usedFallbackLargest, fitVars, selVars,
                  labelVars, restVars >>

\* lines 244-256
PackReturn ==
  /\ pc = "loop"
  /\ idx > Len(units)
  /\ usedFallbackLargest' =
       (usedFallbackLargest
          \/ (hasItemDimensions /\ \E i \in 1..Len(units) : ~IsSome(units[i].dims)))
  /\ pc' = "returned"
  /\ UNCHANGED << items, boxes, totalWeightKg, sortedBoxes, units, hasItemDimensions,
                  idx, packages, unplacedUnits, fitVars, selVars, labelVars, restVars >>

PackNext == PackEnter \/ PackUnit \/ PackReturn

Spec == PackInit /\ [][PackNext]_vars

\* packItemsIntoBoxes applied to one item that may carry a weight in each of
\* the four places an item can carry one
WeighedItem(q, w1, w2, w3, w4) ==
  [quantity |-> q,
   line_item |-> Some([variant |-> Some([weight |-> w1, dims |-> None]),
                       product |-> Some([weight |-> w2]),
                       quantity |-> None]),
   variant |-> Some([weight |-> w3, dims |-> None]),
   product |-> Some([weight |-> w4])]

WeighedItemPool ==
  {WeighedItem(q, w1, w2, w3, w4) :
     q \in {None, Some(2)}, w1 \in {None, Some(100)}, w2 \in {None, Some(200)},
     w3 \in {None, Some(300)}, w4 \in {None, Some(400)}}

WeighInit ==
  /\ pc = "call"
  /\ items \in {<< i >> : i \in WeighedItemPool}
  /\ boxes \in {<< >>, << Box(<< 20, 20, 20 >>, None) >>}
  /\ PackIdle
  /\ FitIdle
  /\ SelIdle
  /\ capabilities = << >>
  /\ productKey = Undefined
  /\ LabelIdle
  /\ RestIdle

SpecWeigh == WeighInit /\ [][PackNext]_vars

\* ------------------------------------------------------------------------
\* selectBoxForItems applied to drawn arguments
\* ------------------------------------------------------------------------
BoxInit ==
  /\ pc = "selectBox"
  /\ items \in SeqsUpTo(ItemPool, MaxItems)
  /\ boxes \in SeqsUpTo(BoxPool, MaxBoxes)
  /\ PackIdle
  /\ FitIdle
  /\ SelIdle
  /\ capabilities = << >>
  /\ productKey = Undefined
  /\ LabelIdle
  /\ RestIdle

SelectBox ==
  /\ pc = "selectBox"
  /\ selection' = Some(selectBoxForItems(items, boxes))
  /\ pc' = "selected"
  /\ UNCHANGED << packVars, fitVars, selVars, labelVars, hookVars, credVars, authVars,
                  syncVars >>

BoxNext == SelectBox

SpecBox == BoxInit /\ [][BoxNext]_vars

\* ------------------------------------------------------------------------
\* the dimension-fit tests applied to a unit or package envelope and a container
\* ------------------------------------------------------------------------
Triples == DimValues \X DimValues \X DimValues

DimsUnit(t) ==
  [weight_kg |-> F0,
   dims |-> Some([length_cm |-> t[1], width_cm |-> t[2], height_cm |-> t[3]]),
   volume_cm3 |-> t[1] * t[2] * t[3]]

\* the named fit test on unit dimensions t and container dimensions c; the
\* package of fitsUnitInPackage holds one weightless unit without dimensions
ApplyFit(fn, t, c) ==
  IF fn = "fitsUnitInBox" THEN fitsUnitInBox(DimsUnit(t), Box(c, None))
  ELSE IF fn = "fitsUnitInPackage"
    THEN fitsUnitInPackage(DimsUnit(t),
                           [box |-> Box(c, None), weight_kg |-> F0, volume_cm3 |-> 0,
                            units |-> 1],
                           TRUE)
  ELSE dimsFit(Some([maxLengthCm |-> c[1], maxWidthCm |-> c[2], maxHeightCm |-> c[3]]),
               Some([length |-> t[1], width |-> t[2], height |-> t[3]]))

FitInit ==
  /\ pc = "fit"
  /\ fitFn \in {"fitsUnitInBox", "fitsUnitInPackage", "dimsFit"}
  /\ fitUnit \in Triples
  /\ fitContainer \in Triples
  /\ fitResult = None
  /\ items = << >>
  /\ boxes = << >>
  /\ PackIdle
  /\ SelIdle
  /\ capabilities = << >>
  /\ productKey = Undefined
  /\ LabelIdle
  /\ RestIdle

FitCall ==
  /\ pc = "fit"
  /\ fitResult = None
  /\ fitResult' = Some(ApplyFit(fitFn, fitUnit, fitContainer))
  /\ UNCHANGED << pc, fitFn, fitUnit, fitContainer, packVars, selVars, labelVars, restVars >>

\* the same test on the unit turned to another orientation
FitRotateUnit ==
  /\ pc = "fit"
  /\ fitResult # None
  /\ \E p \in Perms3 :
       /\ Permute(fitUnit, p) # fitUnit
       /\ fitUnit' = Permute(fitUnit, p)
  /\ fitResult' = Some(ApplyFit(fitFn, fitUnit', fitContainer))
  /\ UNCHANGED << pc, fitFn, fitContainer, packVars, selVars, labelVars, restVars >>

\* the same test on the container turned to another orientation
FitRotateContainer ==
  /\ pc = "fit"
  /\ fitResult # None
  /\ \E p \in Perms3 :
       /\ Permute(fitContainer, p) # fitContainer
       /\ fitContainer' = Permute(fitContainer, p)
  /\ fitResult' = Some(ApplyFit(fitFn, fitUnit, fitContainer'))
  /\ UNCHANGED << pc, fitFn, fitUnit, packVars, selVars, labelVars, restVars >>

FitNext == FitCall \/ FitRotateUnit \/ FitRotateContainer

SpecFit == FitInit /\ [][FitNext]_vars

\* ------------------------------------------------------------------------
\* the two selectors applied to drawn arguments
\* ------------------------------------------------------------------------
SelInit ==
  /\ pc = "select"
  /\ \/ /\ selFn = "selectOptimalParcelType"
        /\ parcelTypes \in SeqsUpTo(ParcelTypePool, MaxTiers)
        /\ weightKg \in WeightPool
        /\ capabilities = << >>
        /\ productKey = Undefined
        /\ selPackages = << >>
     \/ /\ selFn = "selectParcelTypeForPackagesFromCapabilities"
        /\ parcelTypes = << >>
        /\ weightKg = F0
        /\ capabilities \in SeqsUpTo(CapabilityPool, MaxCapabilities)
        /\ productKey \in {Undefined, "DOOR", "X"}
        /\ selPackages \in SeqsUpTo(PackagePool, MaxPackages)
  /\ selResult = Undefined
  /\ items = << >>
  /\ boxes = << >>
  /\ PackIdle
  /\ FitIdle
  /\ LabelIdle
  /\ RestIdle

SelectOptimal ==
  /\ pc = "select"
  /\ selFn = "selectOptimalParcelType"
  /\ selResult' = selectOptimalParcelType(parcelTypes, weightKg)
  /\ pc' = "returned"
  /\ UNCHANGED << selFn, parcelTypes, weightKg, capabilities, productKey, selPackages,
                  packVars, fitVars, labelVars, restVars >>

\* variant of SelectForPackages that sorts the catalog it was handed in place
SelectForPackagesSortInPlace ==
  /\ pc = "select"
  /\ selFn = "selectParcelTypeForPackagesFromCapabilities"
  /\ selResult' =
       selectParcelTypeForPackagesFromCapabilities(capabilities, productKey, selPackages)
  /\ capabilities' = SortCapabilities(capabilities)
  /\ pc' = "returned"
  /\ UNCHANGED << selFn, parcelTypes, weightKg, productKey, selPackages,
                  packVars, fitVars, labelVars, restVars >>

SelectForPackages ==
  /\ pc = "select"
  /\ selFn = "selectParcelTypeForPackagesFromCapabilities"
  /\ selResult' =
       selectParcelTypeForPackagesFromCapabilities(capabilities, productKey, selPackages)
  /\ pc' = "returned"
  /\ UNCHANGED << selFn, parcelTypes, weightKg, capabilities, productKey, selPackages,
                  packVars, fitVars, labelVars, restVars >>

SelNext == SelectOptimal \/ SelectForPackages

SpecSelect == SelInit /\ [][SelNext]_vars

\* selectParcelTypeForPackagesFromCapabilities applied to packages of one
\* weight that differ in the dimensions they declare
EnvelopePackagePool ==
  {PackageConstraints(3, d) :
     d \in {None, Some(<< 30, 5, 5 >>), Some(<< 5, 5, 30 >>), Some(<< 40, 40, 40 >>)}}

EnvelopeInit ==
  /\ pc = "select"
  /\ selFn = "selectParcelTypeForPackagesFromCapabilities"
  /\ parcelTypes = << >>
  /\ weightKg = F0
  /\ capabilities \in SeqsUpTo(CapabilityPool, MaxCapabilities)
  /\ productKey \in {Undefined, "X"}
  /\ selPackages \in SeqsUpTo(EnvelopePackagePool, MaxPackages)
  /\ selResult = Undefined
  /\ items = << >>
  /\ boxes = << >>
  /\ PackIdle
  /\ FitIdle
  /\ LabelIdle
  /\ RestIdle

SpecEnvelope == EnvelopeInit /\ [][SelectForPackages]_vars

\* ------------------------------------------------------------------------
\* the four pure functions together: any one of them called on drawn arguments
\* ------------------------------------------------------------------------
CallsInit == PackInit \/ BoxInit \/ SelInit

CallsNext == PackNext \/ BoxNext \/ SelNext

SpecCalls == CallsInit /\ [][CallsNext]_vars

\* ------------------------------------------------------------------------
\* the callers: provider createFulfillment and calculatePrice, workflow step
\* createDhlShipment, from the capabilities request on
\* ------------------------------------------------------------------------
LabelInit ==
  /\ pc = "request"
  /\ caller \in {"createFulfillment", "calculatePrice", "createDhlShipment"}
  /\ items \in LabelItemLists
  /\ boxes \in LabelBoxLists
  /\ capabilities \in SeqsUpTo(LabelCapabilityPool, MaxCapabilities)
  /\ productKey \in {Undefined, "X", "PS"}
  /\ fetchFails \in BOOLEAN
  /\ byConstraints = Undefined
  /\ optimal = Undefined
  /\ parcelType = Undefined
  /\ pieces = << >>
  /\ PackIdle
  /\ FitIdle
  /\ SelIdle
  /\ RestIdle

\* the product the parcel type is resolved for
EffectiveProduct ==
  IF caller = "createDhlShipment" THEN WorkflowProduct(productKey)
  ELSE ProviderProductKey(capabilities, productKey)

\* the total weight the caller computes from the items
CallerTotalKg ==
  IF caller = "createFulfillment" THEN KgOfGrams(SumFulfillmentGrams(items))
  ELSE IF caller = "calculatePrice" THEN KgOfGrams(SumPriceGrams(items))
  ELSE KgOfGrams(SumWorkflowGrams(items))

\* the answer to client.getCapabilities: the provider handlers throw on a
\* failed or empty answer (part_005 lines 804-808 and 541-555; calculatePrice
\* then returns amount 0 from its catch block), the workflow step keeps the
\* parcel type 'SMALL' it starts with (create-shipment.ts lines 152-168, 216-218)
ReceiveCapabilities ==
  /\ pc = "request"
  /\ IF caller = "createDhlShipment"
       THEN /\ parcelType' = "SMALL"
            /\ pc' = IF fetchFails THEN "pieces" ELSE "packing"
       ELSE /\ parcelType' = parcelType
            /\ pc' = IF fetchFails \/ capabilities = << >>
                       THEN (IF caller = "createFulfillment" THEN "threw" ELSE "zero")
                       ELSE "packing"
  /\ UNCHANGED << packVars, fitVars, selVars, restVars, caller, fetchFails, byConstraints,
                  optimal, pieces >>

\* the caller keeps the packages and the diagnostics of the packing
SetPacking(packing) ==
  /\ packages' = packing.packages
  /\ usedFallbackLargest' = packing.diagnostics.used_fallback_largest
  /\ unplacedUnits' = packing.diagnostics.unplaced_units
  /\ hasItemDimensions' = packing.diagnostics.has_item_dimensions

\* the total weight and packItemsIntoBoxes(items, credentials.boxes ?? [])
\* (part_005 lines 791-797, 816 and 565-568; create-shipment.ts lines 170-180)
PackForLabel ==
  /\ pc = "packing"
  /\ totalWeightKg' = CallerTotalKg
  /\ SetPacking(packItemsIntoBoxes(items, boxes))
  /\ pc' = "select"
  /\ UNCHANGED << items, boxes, sortedBoxes, units, idx, fitVars, selVars, labelVars, restVars >>

\* the chain of selections (part_005 lines 820-869 and 572-621;
\* create-shipment.ts lines 181-215)
ResolveParcelType ==
  /\ pc = "select"
  /\ LET r == IF caller = "createDhlShipment"
                THEN ResolveWorkflow(capabilities, EffectiveProduct,
                                     PackagesForSelection(packages, totalWeightKg),
                                     totalWeightKg)
                ELSE ResolveProvider(capabilities, EffectiveProduct,
                                     PackagesForSelection(packages, totalWeightKg),
                                     totalWeightKg, caller = "createFulfillment")
     IN /\ byConstraints' = r.byConstraints
        /\ optimal' = r.optimal
        /\ parcelType' = r.parcelType
  /\ pc' = IF caller = "calculatePrice" THEN "priced" ELSE "pieces"
  /\ UNCHANGED << packVars, fitVars, selVars, restVars, caller, fetchFails, pieces >>

\* variant of IsMonoCollo that takes no product for mono-collo
IsMonoColloNever == FALSE

\* product.monoColloProduct of the first capability of the product
IsMonoCollo ==
  /\ Truthy(EffectiveProduct)
  /\ FilterProduct(capabilities, EffectiveProduct) # << >>
  /\ FilterProduct(capabilities, EffectiveProduct)[1].product.monoColloProduct

\* the weight of the single piece of the workflow: the sum of
\* (weight * quantity) / 1000 over the items, || undefined
RECURSIVE WorkflowPieceKg(_)
WorkflowPieceKg(its) ==
  IF its = << >> THEN F0
  ELSE FAdd(WorkflowPieceKg(SubSeq(its, 1, Len(its) - 1)),
            KgOfGrams(WorkflowItemGrams(its[Len(its)])))

\* the pieces of the workflow: one per package, or a single piece
WorkflowPieces(pkgs, parcelKey, kg) ==
  IF Len(pkgs) > 0 THEN PiecesOfPackages(pkgs, parcelKey)
  ELSE SinglePiece(parcelKey, IF FIsZero(kg) THEN None ELSE Some(kg))

\* the pieces and the carrier request (part_005 lines 891-948;
\* create-shipment.ts lines 228-260, which packs the items a second time and
\* sends one piece without weight when reading the settings fails)
SendPieces ==
  /\ pc = "pieces"
  /\ IF caller = "createDhlShipment"
       THEN \E settingsFail \in BOOLEAN :
              pieces' = IF settingsFail THEN SinglePiece(parcelType, None)
                        ELSE WorkflowPieces(packItemsIntoBoxes(items, boxes).packages,
                                            parcelType, WorkflowPieceKg(items))
       ELSE pieces' =
              IF ~IsMonoCollo /\ Len(packages) > 1
                THEN PiecesOfPackages(packages, parcelType)
                ELSE SinglePiece(parcelType,
                                 IF FGreater(totalWeightKg, F0) THEN Some(totalWeightKg)
                                 ELSE None)
  /\ pc' = "sent"
  /\ UNCHANGED << packVars, fitVars, selVars, restVars, caller, fetchFails, byConstraints,
                  optimal, parcelType >>

LabelNext == ReceiveCapabilities \/ PackForLabel \/ ResolveParcelType \/ SendPieces

SpecLabel == LabelInit /\ [][LabelNext]_vars

\* ------------------------------------------------------------------------
\* POST /store/dhl/webhook (api/store/dhl/webhook/route.ts)
\*
\* A string of a header is a sequence of pieces: a word or one blank. A value
\* of the request is tagged with its JavaScript type. Arrays whose order the
\* handler never looks at (the tracker codes, the query's result) are sets.
\* Logging is left out.
\* ------------------------------------------------------------------------
JsUndefined == [t |-> "undefined"]

JsNull == [t |-> "null"]

JsNumber == [t |-> "number"]

JsString(str) == [t |-> "string", s |-> str]

JsArray(a) == [t |-> "array", a |-> a]

JsObject == [t |-> "object"]

\* String.prototype.toLowerCase on the header names in use
toLowerCase(name) ==
  CASE name = "Authorization" -> "authorization"
    [] name = "X-Key"         -> "x-key"
    [] OTHER                  -> name

\* line 118
headerName(s) ==
  IF Truthy(s.webhook_api_key_header) THEN s.webhook_api_key_header ELSE "Authorization"

\* line 119
headerValue(h, s) == h[toLowerCase(headerName(s))]

RECURSIVE DropLeadingBlanks(_)
DropLeadingBlanks(v) ==
  IF v # << >> /\ Head(v) = " " THEN DropLeadingBlanks(Tail(v)) ELSE v

RECURSIVE DropTrailingBlanks(_)
DropTrailingBlanks(v) ==
  IF v # << >> /\ v[Len(v)] = " "
    THEN DropTrailingBlanks(SubSeq(v, 1, Len(v) - 1))
    ELSE v

\* String.prototype.trim
Trim(v) == DropTrailingBlanks(DropLeadingBlanks(v))

\* replace(/^Bearer\s+/i, '')
StripBearer(v) ==
  IF Len(v) >= 2 /\ v[1] \in {"Bearer", "bearer"} /\ v[2] = " "
    THEN DropLeadingBlanks(Tail(v))
    ELSE v

\* variant of providedKey that takes the last word of the header for the key
providedKeyLastWord(v) ==
  LET w == Trim(v) IN IF w = << >> THEN w ELSE << w[Len(w)] >>

\* line 130
providedKey(v) == Trim(StripBearer(v))

\* lines 25-47
isValidWebhookBody(b) ==
  /\ b.t = "object"
  /\ b.created.t \in {"string", "undefined"}
  /\ b.barcode.t \in {"undefined", "string"}
  /\ b.barcodes.t \in {"undefined", "array"}

\* lines 52-68, of a body that passed isValidWebhookBody
extractTrackerCodes(b) ==
  (IF b.barcode.t = "string" /\ b.barcode.s # "" THEN {b.barcode.s} ELSE {})
    \cup (IF b.barcodes.t = "array"
            THEN {b.barcodes.a[i] : i \in {j \in DOMAIN b.barcodes.a : b.barcodes.a[j] # ""}}
            ELSE {})

\* lines 104-157: the status the handler answers with before it queries, 0
\* when it goes on to the query
StatusBeforeQuery(st, h, b) ==
  IF st = None THEN 500
  ELSE IF ~Truthy(st[1].webhook_api_key) THEN 500
  ELSE IF headerValue(h, st[1]).t # "string" THEN 401
  ELSE IF headerValue(h, st[1]).s = << >> THEN 401
  ELSE IF providedKey(headerValue(h, st[1]).s) # << st[1].webhook_api_key >> THEN 401
  ELSE IF ~isValidWebhookBody(b) THEN 400
  ELSE IF extractTrackerCodes(b) = {} THEN 400
  ELSE 0

\* lines 166-175: the fulfillments of provider 'dhl'; nested tells whether the
\* query engine also narrowed the result by labels.tracking_number
QueryGraph(table, trackerCodes, nested) ==
  {f \in table :
     /\ f.provider_id = "dhl"
     /\ nested => \E i \in DOMAIN f.labels : f.labels[i] \in trackerCodes}

\* variant of matchingFulfillments that trusts the query's result
matchingFulfillmentsUnfiltered(fs, trackerCodes) == fs

\* lines 178-180
matchingFulfillments(fs, trackerCodes) ==
  {f \in fs : \E i \in DOMAIN f.labels : f.labels[i] \in trackerCodes}

MaxFulfillments == 2

FulfillmentPool ==
  { [id |-> "ful_1", provider_id |-> "dhl", labels |-> << "T1" >>],
    [id |-> "ful_2", provider_id |-> "dhl", labels |-> << "T3", "T2" >>],
    [id |-> "ful_3", provider_id |-> "manual", labels |-> << "T1" >>],
    [id |-> "ful_4", provider_id |-> "dhl", labels |-> << >>] }

SettingsPool ==
  {None} \cup
  {Some([webhook_api_key |-> k, webhook_api_key_header |-> h]) :
     k \in {Undefined, "", "k1"}, h \in {Undefined, "X-Key"}}

HeaderValuePool ==
  {JsUndefined, JsArray(<< >>)} \cup
  {JsString(v) : v \in { << >>, << "k1" >>, << "k2" >>, << "Bearer", " ", "k1" >>,
                         << "bearer", " ", " ", "k1", " " >>, << "Bearer", "k1" >>,
                         << " ", "Bearer", " ", "k1" >>, << "Bearer", " " >>,
                         << "Bearer", " ", "k2" >> }}

HeadersPool ==
  {[n \in {"authorization", "x-key"} |-> IF n = "authorization" THEN a ELSE x] :
     a \in HeaderValuePool, x \in {JsUndefined, JsString(<< "k1" >>), JsString(<< "k2" >>)}}

WebhookObject(created, barcode, barcodes) ==
  [t |-> "object", created |-> created, barcode |-> barcode, barcodes |-> barcodes]

BodyPool ==
  {JsString("text"), JsNull} \cup
  {WebhookObject(c, JsString("T1"), JsUndefined) : c \in {JsString("2024-01-01"), JsNumber}} \cup
  {WebhookObject(JsUndefined, b, bs) :
     b \in {JsUndefined, JsString(""), JsString("T1"), JsNumber},
     bs \in {JsUndefined, JsObject, JsArray(<< >>), JsArray(<< "", "T2" >>),
             JsArray(<< "T1", "T1" >>)}}

HookInit ==
  /\ pc = "received"
  /\ settings \in SettingsPool
  /\ headers \in HeadersPool
  /\ body \in BodyPool
  /\ storedFulfillments \in {t \in SUBSET FulfillmentPool : Cardinality(t) <= MaxFulfillments}
  /\ fulfillments = {}
  /\ matching = {}
  /\ status = 0
  /\ workflow = "none"
  /\ items = << >>
  /\ boxes = << >>
  /\ PackIdle
  /\ FitIdle
  /\ SelIdle
  /\ capabilities = << >>
  /\ productKey = Undefined
  /\ LabelIdle
  /\ BoxIdle
  /\ CredIdle
  /\ AuthIdle
  /\ SyncIdle

\* lines 97-157: settings, key and payload checks
Authenticate ==
  /\ pc = "received"
  /\ IF StatusBeforeQuery(settings, headers, body) # 0
       THEN /\ status' = StatusBeforeQuery(settings, headers, body)
            /\ pc' = "responded"
       ELSE /\ status' = status
            /\ pc' = "validated"
  /\ UNCHANGED << settings, headers, body, storedFulfillments, fulfillments, matching,
                  workflow, packVars, fitVars, selVars, labelVars, boxVars, credVars, authVars,
                  syncVars >>

\* lines 163-190: the query, the handler's own filter, 404 when nothing is left
QueryFulfillments ==
  /\ pc = "validated"
  /\ \E nested \in BOOLEAN :
       /\ fulfillments' = QueryGraph(storedFulfillments, extractTrackerCodes(body), nested)
       /\ matching' = matchingFulfillments(fulfillments', extractTrackerCodes(body))
  /\ IF matching' = {}
       THEN status' = 404 /\ pc' = "responded"
       ELSE status' = status /\ pc' = "found"
  /\ UNCHANGED << settings, headers, body, storedFulfillments, workflow, packVars, fitVars,
                  selVars, labelVars, boxVars, credVars, authVars,
                  syncVars >>

\* line 199
Acknowledge ==
  /\ pc = "found"
  /\ status' = 200
  /\ pc' = "acknowledged"
  /\ UNCHANGED << settings, headers, body, storedFulfillments, fulfillments, matching,
                  workflow, packVars, fitVars, selVars, labelVars, boxVars, credVars, authVars,
                  syncVars >>

\* lines 202-213: the workflow is started and not awaited
RunWorkflow ==
  /\ pc = "acknowledged"
  /\ workflow' = "running"
  /\ pc' = "started"
  /\ UNCHANGED << settings, headers, body, storedFulfillments, fulfillments, matching,
                  status, packVars, fitVars, selVars, labelVars, boxVars, credVars, authVars,
                  syncVars >>

\* lines 214-218
WorkflowThen ==
  /\ workflow = "running"
  /\ workflow' = "completed"
  /\ UNCHANGED << pc, settings, headers, body, storedFulfillments, fulfillments, matching,
                  status, packVars, fitVars, selVars, labelVars, boxVars, credVars, authVars,
                  syncVars >>

\* lines 219-221
WorkflowCatch ==
  /\ workflow = "running"
  /\ workflow' = "failed"
  /\ UNCHANGED << pc, settings, headers, body, storedFulfillments, fulfillments, matching,
                  status, packVars, fitVars, selVars, labelVars, boxVars, credVars, authVars,
                  syncVars >>

HookNext ==
  Authenticate \/ QueryFulfillments \/ Acknowledge \/ RunWorkflow \/ WorkflowThen
    \/ WorkflowCatch

SpecWebhook == HookInit /\ [][HookNext]_vars

\* ------------------------------------------------------------------------
\* getCredentials of the fulfillment provider, in its two versions, over the
\* credentials workflow and the settings module
\* ------------------------------------------------------------------------
\* modules/setting/service.ts normalizeBoxes: a stored value that is no array
\* (None here) becomes the empty array
normalizeBoxes(raw) == IF IsSome(raw) THEN raw[1] ELSE << >>

\* modules/setting/service.ts getCredentials: the first row, or null (None)
SettingsOfFirstRow(rows) ==
  IF Len(rows) > 0
    THEN Some([rows[1] EXCEPT !.boxes = normalizeBoxes(rows[1].boxes)])
    ELSE None

\* workflows/get-credentials.ts: a read that throws is caught and gives null
getDatabaseCredentials(rows, fails) == IF fails THEN None ELSE SettingsOfFirstRow(rows)

\* result ?? fallback
OrElse(v, fallback) == IF v = Undefined THEN fallback ELSE v

\* the object built from the plugin options
CredentialsFromOptions(opts, version) ==
  IF version = "DhlProviderService"
    THEN [user_id |-> opts.userId, api_key |-> opts.apiKey, account_id |-> opts.accountId,
          enable_logs |-> opts.enableLogs, is_enabled |-> opts.isEnabled,
          boxes |-> << >>]
    ELSE [user_id |-> opts.userId, api_key |-> opts.apiKey, account_id |-> opts.accountId,
          enable_logs |-> opts.enableLogs, is_enabled |-> opts.isEnabled,
          item_dimensions_unit |-> OrElse(opts.itemDimensionsUnit, "mm"),
          item_weight_unit |-> OrElse(opts.itemWeightUnit, "g"),
          webhook_api_key |-> opts.webhookApiKey,
          webhook_api_key_header |-> OrElse(opts.webhookApiKeyHeader, "Authorization")]

\* variant of getCredentials that takes the stored row whenever there is one
getCredentialsOfAnyRow(result, opts, version) ==
  IF result = None THEN CredentialsFromOptions(opts, version) ELSE result[1]

\* the guard and the two returns; result.boxes ?? [] of DhlProviderService
\* leaves the array the settings module normalised
getCredentials(result, opts, version) ==
  IF \/ result = None
     \/ ~Truthy(result[1].account_id)
     \/ ~Truthy(result[1].user_id)
     \/ ~Truthy(result[1].api_key)
    THEN CredentialsFromOptions(opts, version)
    ELSE result[1]

MaxRows == 1

SettingRowPool ==
  {[is_enabled |-> TRUE, user_id |-> u, api_key |-> k, account_id |-> "db-account",
    enable_logs |-> FALSE, boxes |-> b] :
     u \in {"db-user", "opt-user"}, k \in {"db-key", ""}, b \in {None, Some(<< "box_1" >>)}}

OptionsPool ==
  {[userId |-> u, apiKey |-> "opt-key", accountId |-> "opt-account", enableLogs |-> TRUE,
    isEnabled |-> TRUE, itemDimensionsUnit |-> d, itemWeightUnit |-> Undefined,
    webhookApiKey |-> "k1", webhookApiKeyHeader |-> h] :
     u \in {Undefined, "opt-user"}, d \in {Undefined, "cm"}, h \in {Undefined, "X-Key"}}

CredInit ==
  /\ pc = "getCredentials"
  /\ dhlSettings \in SeqsUpTo(SettingRowPool, MaxRows)
  /\ options \in {Some(o) : o \in OptionsPool}
  /\ credVersion \in {"DhlProviderService", "DHLProviderService"}
  /\ readFails = FALSE
  /\ dbRead = None
  /\ credResult = None
  /\ items = << >>
  /\ boxes = << >>
  /\ PackIdle
  /\ FitIdle
  /\ SelIdle
  /\ capabilities = << >>
  /\ productKey = Undefined
  /\ LabelIdle
  /\ BoxIdle
  /\ HookIdle
  /\ AuthIdle
  /\ SyncIdle

\* the workflow run: the step reads the table, or the read throws
RunCredentialsWorkflow ==
  /\ pc = "getCredentials"
  /\ readFails' \in BOOLEAN
  /\ dbRead' = getDatabaseCredentials(dhlSettings, readFails')
  /\ pc' = "read"
  /\ UNCHANGED << dhlSettings, options, credVersion, credResult, packVars, fitVars, selVars,
                  labelVars, boxVars, hookVars, authVars,
                  syncVars >>

ReturnCredentials ==
  /\ pc = "read"
  /\ credResult' = Some(getCredentials(dbRead, options[1], credVersion))
  /\ pc' = "returned"
  /\ UNCHANGED << dhlSettings, readFails, dbRead, options, credVersion, packVars, fitVars,
                  selVars, labelVars, boxVars, hookVars, authVars,
                  syncVars >>

CredNext == RunCredentialsWorkflow \/ ReturnCredentials

SpecCredentials == CredInit /\ [][CredNext]_vars

\* ------------------------------------------------------------------------
\* dhl-api auth: getAccessToken over the module-level cachedToken, with the
\* calls of several clients interleaving at the await of the fetch
\* ------------------------------------------------------------------------
FiveMinutes == 5 * 60 * 1000

MaxCalls == 2
MaxTicks == 3

\* the accounts the carrier knows, and the key of each
AuthCredentialsPool ==
  {[userId |-> "A", key |-> "key-A"], [userId |-> "B", key |-> "key-B"],
   [userId |-> "A", key |-> "wrong"]}

\* the carrier accepts the key of the user
Authenticates(credentials) == credentials.key = "key-" \o credentials.userId

\* the access token the carrier issues to a user
AccessTokenOf(credentials) == [userId |-> credentials.userId]

\* line 18
CachedTokenValid(cached, now) ==
  cached # None /\ cached[1].expiresAt > now + FiveMinutes

AuthInit ==
  /\ pc = "auth"
  /\ cachedToken = None
  /\ clock = 0
  /\ authCalls \in UNION {[1..k -> {[credentials |-> cr, at |-> "called", token |-> None] :
                                       cr \in AuthCredentialsPool}] : k \in 1..MaxCalls}
  /\ items = << >>
  /\ boxes = << >>
  /\ PackIdle
  /\ FitIdle
  /\ SelIdle
  /\ capabilities = << >>
  /\ productKey = Undefined
  /\ LabelIdle
  /\ BoxIdle
  /\ HookIdle
  /\ CredIdle
  /\ SyncIdle

\* lines 17-20: a valid cached token is returned, else the fetch is sent
CheckCachedToken(c) ==
  /\ authCalls[c].at = "called"
  /\ authCalls' =
       IF CachedTokenValid(cachedToken, clock)
         THEN [authCalls EXCEPT ![c].at = "returned",
                                ![c].token = Some(cachedToken[1].accessToken)]
         ELSE [authCalls EXCEPT ![c].at = "fetching"]
  /\ UNCHANGED << pc, cachedToken, clock, packVars, fitVars, selVars, labelVars, boxVars,
                  hookVars, credVars, syncVars >>

\* lines 42-50: the carrier answered with a token, which is cached and returned
ReceiveToken(c) ==
  /\ authCalls[c].at = "fetching"
  /\ Authenticates(authCalls[c].credentials)
  /\ \E lifetime \in {FiveMinutes, 3 * FiveMinutes} :
       cachedToken' = Some([accessToken |-> AccessTokenOf(authCalls[c].credentials),
                            expiresAt |-> clock + lifetime])
  /\ authCalls' = [authCalls EXCEPT ![c].at = "returned",
                                    ![c].token = Some(AccessTokenOf(authCalls[c].credentials))]
  /\ UNCHANGED << pc, clock, packVars, fitVars, selVars, labelVars, boxVars, hookVars,
                  credVars, syncVars >>

\* lines 34-40: the response is not ok
AuthenticationFails(c) ==
  /\ authCalls[c].at = "fetching"
  /\ authCalls' = [authCalls EXCEPT ![c].at = "threw"]
  /\ UNCHANGED << pc, cachedToken, clock, packVars, fitVars, selVars, labelVars, boxVars,
                  hookVars, credVars, syncVars >>

\* lines 53-55
clearTokenCache ==
  /\ cachedToken # None
  /\ cachedToken' = None
  /\ UNCHANGED << pc, clock, authCalls, packVars, fitVars, selVars, labelVars, boxVars,
                  hookVars, credVars, syncVars >>

\* time passes
AdvanceClock ==
  /\ clock < MaxTicks * FiveMinutes
  /\ clock' = clock + FiveMinutes
  /\ UNCHANGED << pc, cachedToken, authCalls, packVars, fitVars, selVars, labelVars, boxVars,
                  hookVars, credVars, syncVars >>

AuthNext ==
  \/ \E c \in DOMAIN authCalls : CheckCachedToken(c)
  \/ \E c \in DOMAIN authCalls : ReceiveToken(c)
  \/ \E c \in DOMAIN authCalls : AuthenticationFails(c)
  \/ clearTokenCache
  \/ AdvanceClock

SpecAuth == AuthInit /\ [][AuthNext]_vars

\* ------------------------------------------------------------------------
\* sync-dhl-tracking: syncTrackingStep over the rows of the tracking module,
\* one action per await of the loop body
\* ------------------------------------------------------------------------
MaxTrackings == 2

\* inferShipmentState over the keywords found in the title and notifications
inferShipmentState(keywords) ==
  IF "delivered" \in keywords THEN "delivered"
  ELSE IF "in transit" \in keywords THEN "in_transit"
  ELSE "unknown"

TrackingKeywordsPool == SUBSET {"delivered", "in transit"}

\* the row with id i of the dhl_tracking table
TrackingRowPool(i) ==
  {[id |-> i, fulfillment_id |-> i, tracker_code |-> t, postal_code |-> "1012AB",
    shipped_at |-> sh, delivered_at |-> de, last_state |-> "unknown", last_error |-> None] :
     t \in {"", "3SABC"}, sh \in {None, Some("earlier")}, de \in {None, Some("earlier")}}

TrackingTablePool ==
  UNION {{t \in [1..k -> UNION {TrackingRowPool(i) : i \in 1..k}] :
            \A i \in 1..k : t[i].id = i} : k \in 1..MaxTrackings}

RowNotDelivered(row) == row.delivered_at = None

\* listPendingSync: the rows not delivered yet, at most limit of them
listPendingSync(table, limit) ==
  LET pending == SelectSeq(table, RowNotDelivered)
  IN  SubSeq(pending, 1, IF Len(pending) < limit THEN Len(pending) ELSE limit)

\* updateSyncResult: the patch is merged into the row with that id
updateSyncResult(table, id, patch) ==
  [table EXCEPT ![id] = [f \in DOMAIN table[id] |->
                           IF f \in DOMAIN patch THEN patch[f] ELSE table[id][f]]]

\* the row the loop is at
Row == pendingRows[rowIdx]

\* line 236
RowIncomplete(row) == row.tracker_code = "" \/ row.postal_code = ""

\* lines 250-251
shouldMarkShipped == trackedState = "in_transit" /\ Row.shipped_at = None
shouldMarkDelivered == trackedState = "delivered" /\ Row.delivered_at = None

SyncInit ==
  /\ pc = "sync"
  /\ trackings \in TrackingTablePool
  /\ dryRun \in BOOLEAN
  /\ pendingRows = << >>
  /\ rowIdx = 0
  /\ trackedState = Undefined
  /\ synced = 0
  /\ updated = 0
  /\ marked = {}
  /\ items = << >>
  /\ boxes = << >>
  /\ PackIdle
  /\ FitIdle
  /\ SelIdle
  /\ capabilities = << >>
  /\ productKey = Undefined
  /\ LabelIdle
  /\ BoxIdle
  /\ HookIdle
  /\ CredIdle
  /\ AuthIdle

SyncFrame ==
  UNCHANGED << packVars, fitVars, selVars, labelVars, boxVars, hookVars, credVars, authVars >>

\* lines 197-207: the credentials are incomplete
MissingCredentials ==
  /\ pc = "sync"
  /\ pc' = "missingCredentials"
  /\ UNCHANGED syncVars
  /\ SyncFrame

\* lines 216-222
ListPendingSync ==
  /\ pc = "sync"
  /\ \E limit \in {1, 50} : pendingRows' = listPendingSync(trackings, limit)
  /\ rowIdx' = 1
  /\ pc' = "row"
  /\ UNCHANGED << trackings, dryRun, trackedState, synced, updated, marked >>
  /\ SyncFrame

\* lines 275-283: the catch of the loop body records the error on the row;
\* when that write fails too, the step throws
CatchRowError ==
  /\ \/ /\ trackings' = updateSyncResult(trackings, Row.id, [last_error |-> Some("error")])
        /\ rowIdx' = rowIdx + 1
        /\ pc' = "row"
     \/ /\ pc' = "threw"
        /\ UNCHANGED << trackings, rowIdx >>
  /\ UNCHANGED << dryRun, pendingRows, trackedState, updated, marked >>

\* lines 225-238: a row without tracker code or postal code is skipped
SkipIncompleteRow ==
  /\ pc = "row"
  /\ rowIdx <= Len(pendingRows)
  /\ RowIncomplete(Row)
  /\ synced' = synced + 1
  /\ rowIdx' = rowIdx + 1
  /\ UNCHANGED << pc, trackings, dryRun, pendingRows, trackedState, updated, marked >>
  /\ SyncFrame

\* lines 225-253: the shipment is tracked and the sync metadata stored; a dry
\* run goes on to the next row
TrackShipment ==
  /\ pc = "row"
  /\ rowIdx <= Len(pendingRows)
  /\ ~RowIncomplete(Row)
  /\ synced' = synced + 1
  /\ \E keywords \in TrackingKeywordsPool :
       /\ trackedState' = inferShipmentState(keywords)
       /\ trackings' = updateSyncResult(trackings, Row.id,
                         [last_state |-> inferShipmentState(keywords), last_error |-> None])
  /\ IF dryRun
       THEN rowIdx' = rowIdx + 1 /\ pc' = "row"
       ELSE rowIdx' = rowIdx /\ pc' = "shipped?"
  /\ UNCHANGED << dryRun, pendingRows, updated, marked >>
  /\ SyncFrame

\* lines 239-248 throw: the tracking request or the metadata write fails
TrackShipmentFails ==
  /\ pc = "row"
  /\ rowIdx <= Len(pendingRows)
  /\ ~RowIncomplete(Row)
  /\ synced' = synced + 1
  /\ CatchRowError
  /\ SyncFrame

\* line 255 is false
NotShipped ==
  /\ pc = "shipped?"
  /\ ~shouldMarkShipped
  /\ pc' = "delivered?"
  /\ UNCHANGED << trackings, dryRun, pendingRows, rowIdx, trackedState, synced, updated, marked >>
  /\ SyncFrame

\* line 256: tryMarkShipped returns
MarkShipped ==
  /\ pc = "shipped?"
  /\ shouldMarkShipped
  /\ marked' = marked \cup {<< Row.fulfillment_id, "shipped" >>}
  /\ pc' = "markedShipped"
  /\ UNCHANGED << trackings, dryRun, pendingRows, rowIdx, trackedState, synced, updated >>
  /\ SyncFrame

\* a syncTrackingStep that goes on after a failed tryMarkShipped
MarkShippedFailsIgnored ==
  /\ pc = "shipped?"
  /\ shouldMarkShipped
  /\ pc' = "markedShipped"
  /\ UNCHANGED << trackings, dryRun, pendingRows, rowIdx, trackedState, synced, updated, marked >>
  /\ SyncFrame

\* line 256: tryMarkShipped throws
MarkShippedFails ==
  /\ pc = "shipped?"
  /\ shouldMarkShipped
  /\ UNCHANGED synced
  /\ CatchRowError
  /\ SyncFrame

\* lines 257-258
WriteShippedAt ==
  /\ pc = "markedShipped"
  /\ trackings' = updateSyncResult(trackings, Row.id, [shipped_at |-> Some("now")])
  /\ updated' = updated + 1
  /\ pc' = "delivered?"
  /\ UNCHANGED << dryRun, pendingRows, rowIdx, trackedState, synced, marked >>
  /\ SyncFrame

\* line 257 throws
WriteShippedAtFails ==
  /\ pc = "markedShipped"
  /\ UNCHANGED synced
  /\ CatchRowError
  /\ SyncFrame

\* line 261 is false: the next row
NotDelivered ==
  /\ pc = "delivered?"
  /\ ~shouldMarkDelivered
  /\ rowIdx' = rowIdx + 1
  /\ pc' = "row"
  /\ UNCHANGED << trackings, dryRun, pendingRows, trackedState, synced, updated, marked >>
  /\ SyncFrame

\* line 263 is false: the row was shipped before
DeliveredAfterShipped ==
  /\ pc = "delivered?"
  /\ shouldMarkDelivered
  /\ Row.shipped_at # None
  /\ pc' = "markDelivered"
  /\ UNCHANGED << trackings, dryRun, pendingRows, rowIdx, trackedState, synced, updated, marked >>
  /\ SyncFrame

\* lines 263-265: tryMarkShipped of the delivered branch returns
BestEffortMarkShipped ==
  /\ pc = "delivered?"
  /\ shouldMarkDelivered
  /\ Row.shipped_at = None
  /\ marked' = marked \cup {<< Row.fulfillment_id, "shipped" >>}
  /\ pc' = "bestEffortMarked"
  /\ UNCHANGED << trackings, dryRun, pendingRows, rowIdx, trackedState, synced, updated >>
  /\ SyncFrame

\* lines 265, 267-269: tryMarkShipped of the delivered branch throws, caught
BestEffortMarkShippedFails ==
  /\ pc = "delivered?"
  /\ shouldMarkDelivered
  /\ Row.shipped_at = None
  /\ pc' = "markDelivered"
  /\ UNCHANGED << trackings, dryRun, pendingRows, rowIdx, trackedState, synced, updated, marked >>
  /\ SyncFrame

\* line 266, and its failure caught at lines 267-269
BestEffortWriteShippedAt ==
  /\ pc = "bestEffortMarked"
  /\ \/ trackings' = updateSyncResult(trackings, Row.id, [shipped_at |-> Some("now")])
     \/ UNCHANGED trackings
  /\ pc' = "markDelivered"
  /\ UNCHANGED << dryRun, pendingRows, rowIdx, trackedState, synced, updated, marked >>
  /\ SyncFrame

\* line 271: tryMarkDelivered returns
MarkDelivered ==
  /\ pc = "markDelivered"
  /\ marked' = marked \cup {<< Row.fulfillment_id, "delivered" >>}
  /\ pc' = "markedDelivered"
  /\ UNCHANGED << trackings, dryRun, pendingRows, rowIdx, trackedState, synced, updated >>
  /\ SyncFrame

\* line 271: tryMarkDelivered throws
MarkDeliveredFails ==
  /\ pc = "markDelivered"
  /\ UNCHANGED synced
  /\ CatchRowError
  /\ SyncFrame

\* lines 272-273
WriteDeliveredAt ==
  /\ pc = "markedDelivered"
  /\ trackings' = updateSyncResult(trackings, Row.id, [delivered_at |-> Some("now")])
  /\ updated' = updated + 1
  /\ rowIdx' = rowIdx + 1
  /\ pc' = "row"
  /\ UNCHANGED << dryRun, pendingRows, trackedState, synced, marked >>
  /\ SyncFrame

\* line 272 throws
WriteDeliveredAtFails ==
  /\ pc = "markedDelivered"
  /\ UNCHANGED synced
  /\ CatchRowError
  /\ SyncFrame

\* lines 286-292
FinishSync ==
  /\ pc = "row"
  /\ rowIdx > Len(pendingRows)
  /\ pc' = "finished"
  /\ UNCHANGED syncVars
  /\ SyncFrame

SyncNext ==
  \/ MissingCredentials
  \/ ListPendingSync
  \/ SkipIncompleteRow
  \/ TrackShipment
  \/ TrackShipmentFails
  \/ NotShipped
  \/ MarkShipped
  \/ MarkShippedFails
  \/ WriteShippedAt
  \/ WriteShippedAtFails
  \/ NotDelivered
  \/ DeliveredAfterShipped
  \/ BestEffortMarkShipped
  \/ BestEffortMarkShippedFails
  \/ BestEffortWriteShippedAt
  \/ MarkDelivered
  \/ MarkDeliveredFails
  \/ WriteDeliveredAt
  \/ WriteDeliveredAtFails
  \/ FinishSync

SpecSync == SyncInit /\ [][SyncNext]_vars

\* ------------------------------------------------------------------------
\* properties of packItemsIntoBoxes (checked under Spec)
\* ------------------------------------------------------------------------
Range(f) == {f[i] : i \in DOMAIN f}

RECURSIVE SumPackageWeights(_)
SumPackageWeights(pkgs) ==
  IF pkgs = << >> THEN F0
  ELSE FAdd(SumPackageWeights(SubSeq(pkgs, 1, Len(pkgs) - 1)), pkgs[Len(pkgs)].weight_kg)

RECURSIVE SumQuantities(_)
SumQuantities(its) ==
  IF its = << >> THEN 0
  ELSE (IF Head(its).quantity = None THEN 1 ELSE Head(its).quantity[1])
         + SumQuantities(Tail(its))

\* C1: for a non-empty boxes list, when the call returns unplaced_units = 0,
\* the sum of weight_kg over the returned packages equals total_weight_kg.
C1_WeightConservation ==
  (pc = "returned" /\ boxes # << >> /\ unplacedUnits = 0)
    => SumPackageWeights(packages) = totalWeightKg

\* C2: with an empty boxes list the call returns no packages,
\* used_fallback_largest = true and unplaced_units = the number of units of
\* the items expanded by their quantities.
C2_NoBoxesEmptyPacking ==
  (pc = "returned" /\ boxes = << >>)
    => /\ packages = << >>
       /\ usedFallbackLargest = TRUE
       /\ unplacedUnits = SumQuantities(items)

\* five units and no box: nothing packed, five units unplaced
C2_Witness ==
  /\ pc = "returned"
  /\ boxes = << >>
  /\ SumQuantities(items) = 5
  /\ packages = << >>
  /\ unplacedUnits = 5
  /\ usedFallbackLargest

\* the three dimensions of t fit those of c in some rotation
RotationFits(t, c) == \E p \in Perms3 : \A i \in 1..3 : t[p[i]] <= c[i]

UnitTriple(u) == << u.dims[1].length_cm, u.dims[1].width_cm, u.dims[1].height_cm >>

BoxTriple(b) == << b.inner_cm.length, b.inner_cm.width, b.inner_cm.height >>

\* the box holds the unit alone
HoldsAlone(u, b) ==
  /\ b.max_weight_kg # None => FLeq(u.weight_kg, b.max_weight_kg[1])
  /\ u.dims # None => RotationFits(UnitTriple(u), BoxTriple(b))

\* C9: a package opened for a unit that some box can hold alone uses a box of
\* minimal interior volume among the boxes that hold the unit alone.
C9_SmallestFittingBox ==
  [][(PackUnit /\ Len(packages') = Len(packages) + 1
        /\ \E b \in Range(boxes) : HoldsAlone(units[idx], b))
      => LET nb == packages'[Len(packages')].box
         IN /\ nb \in Range(boxes)
            /\ HoldsAlone(units[idx], nb)
            /\ \A b \in Range(boxes) :
                 HoldsAlone(units[idx], b) => BoxVolume(nb) <= BoxVolume(b)]_vars

\* one 30x30x30 unit, boxes 20x20x20 and 40x40x40: a single package in the
\* 40x40x40 box
C9_Witness ==
  /\ pc = "returned"
  /\ Len(units) = 1
  /\ units[1].dims # None
  /\ UnitTriple(units[1]) = << 30, 30, 30 >>
  /\ \E b \in Range(boxes) : BoxTriple(b) = << 20, 20, 20 >>
  /\ Len(packages) = 1
  /\ BoxTriple(packages[1].box) = << 40, 40, 40 >>
  /\ ~usedFallbackLargest

\* the package accepts the unit
Accepts(p, u) ==
  /\ p.box.max_weight_kg # None
       => FLeq(FAdd(p.weight_kg, u.weight_kg), p.box.max_weight_kg[1])
  /\ u.dims # None
       => /\ p.volume_cm3 + u.volume_cm3 <= BoxVolume(p.box)
          /\ RotationFits(UnitTriple(u), BoxTriple(p.box))

ScenarioA ==
  /\ items = << ProviderItem(Some(3), Some(500), None) >>
  /\ boxes = << Box(<< 20, 20, 20 >>, Some(1000)) >>

\* C10: each unit goes into the earliest-opened package that accepts it, and a
\* new package is opened only when no existing package accepts it; three
\* 0.5 kg units without dimensions and one box of 1.0 kg give a package of two
\* units (1.0 kg) and a package of one unit (0.5 kg), has_item_dimensions false.
C10_FirstFit ==
  /\ [][PackUnit =>
          LET u == units[idx]
              ok == {i \in 1..Len(packages) : Accepts(packages[i], u)}
          IN IF ok # {}
               THEN LET k == CHOOSE i \in ok : \A j \in ok : i <= j
                    IN /\ Len(packages') = Len(packages)
                       /\ \A i \in 1..Len(packages) :
                            i # k => packages'[i] = packages[i]
                       /\ packages'[k].box = packages[k].box
                       /\ packages'[k].units = packages[k].units + 1
                       /\ packages'[k].weight_kg = FAdd(packages[k].weight_kg, u.weight_kg)
                       /\ packages'[k].volume_cm3 = packages[k].volume_cm3 + u.volume_cm3
               ELSE /\ Len(packages') = Len(packages) + 1
                    /\ SubSeq(packages', 1, Len(packages)) = packages
                    /\ packages'[Len(packages')].units = 1]_vars
  /\ []((pc = "returned" /\ ScenarioA)
          => /\ Len(packages) = 2
             /\ packages[1].units = 2 /\ packages[1].weight_kg = FInt(1)
             /\ packages[2].units = 1 /\ packages[2].weight_kg = FDiv(1, 2)
             /\ hasItemDimensions = FALSE)

\* the scenario has run: two packages of two units and of one unit
C10_Witness ==
  /\ pc = "returned"
  /\ ScenarioA
  /\ Len(packages) = 2
  /\ packages[1].units = 2
  /\ packages[2].units = 1

\* ------------------------------------------------------------------------
\* properties of the selectors (checked under SpecSelect)
\* ------------------------------------------------------------------------
OptimalReturned == pc = "returned" /\ selFn = "selectOptimalParcelType"

\* the tiers whose inclusive range holds the weight
Satisfying == {i \in 1..Len(parcelTypes) :
                 /\ FLeq(parcelTypes[i].min_weight_kg, weightKg)
                 /\ FLeq(weightKg, parcelTypes[i].max_weight_kg)}

\* the weight is the upper bound of one tier and the lower bound of another
OnSharedBoundary ==
  \E i, j \in Satisfying :
    /\ i # j
    /\ parcelTypes[i].max_weight_kg = weightKg
    /\ parcelTypes[j].min_weight_kg = weightKg
    /\ FLess(weightKg, parcelTypes[j].max_weight_kg)

ScenarioD ==
  /\ parcelTypes = << ParcelType("SMALL", 0, 2), ParcelType("MEDIUM", 2, 10),
                      ParcelType("LARGE", 10, 30) >>
  /\ weightKg = FInt(2)

\* C3 as stated: on the shared boundary of two adjacent tiers
\* selectOptimalParcelType returns the tier whose lower bound is the weight;
\* SMALL [0,2], MEDIUM [2,10], LARGE [10,30] and 2 kg give "MEDIUM"
C3_BoundaryReturnsUpperTier ==
  /\ (OptimalReturned /\ OnSharedBoundary)
       => \E k \in Satisfying : /\ parcelTypes[k].key = selResult
                                /\ parcelTypes[k].min_weight_kg = weightKg
  /\ (OptimalReturned /\ ScenarioD) => selResult = "MEDIUM"

\* C3 amended: on the shared boundary of two adjacent tiers
\* selectOptimalParcelType returns the tier whose inclusive upper bound is the
\* weight; SMALL [0,2], MEDIUM [2,10], LARGE [10,30] and 2 kg give "SMALL"
C3_BoundaryReturnsLowerTier ==
  /\ (OptimalReturned /\ OnSharedBoundary)
       => \E k \in Satisfying : /\ parcelTypes[k].key = selResult
                                /\ parcelTypes[k].max_weight_kg = weightKg
  /\ (OptimalReturned /\ ScenarioD) => selResult = "SMALL"

\* the call of Scenario D has returned
C3_Witness == OptimalReturned /\ ScenarioD /\ selResult = "SMALL"

\* C4: selectOptimalParcelType returns the key of a tier whose range holds the
\* weight and whose max_weight_kg is minimal among the tiers whose range holds
\* it, and returns undefined exactly when no tier's range holds the weight
C4_MinimalMaxWeightTier ==
  OptimalReturned =>
    /\ (selResult = Undefined) <=> (Satisfying = {})
    /\ Satisfying # {} =>
         \E k \in Satisfying :
           /\ parcelTypes[k].key = selResult
           /\ \A j \in Satisfying :
                FLeq(parcelTypes[k].max_weight_kg, parcelTypes[j].max_weight_kg)

\* a call where the first tier of the list holds the weight but a later tier
\* with a smaller maximum holds it too and is returned
C4_Witness ==
  /\ OptimalReturned
  /\ 1 \in Satisfying
  /\ \E k \in Satisfying :
       /\ FLess(parcelTypes[k].max_weight_kg, parcelTypes[1].max_weight_kg)
       /\ parcelTypes[k].key = selResult
  /\ parcelTypes[1].key # selResult

PackagesReturned == pc = "returned" /\ selFn = "selectParcelTypeForPackagesFromCapabilities"

\* the entries of the product, all entries when no product key is given
Relevant == {i \in 1..Len(capabilities) :
               productKey = Undefined \/ capabilities[i].product.key = productKey}

\* the weight of the heaviest package
HeaviestKg ==
  CHOOSE w \in {selPackages[i].weight_kg : i \in 1..Len(selPackages)} :
    \A i \in 1..Len(selPackages) : FLeq(selPackages[i].weight_kg, w)

\* the least triple that holds, side by side, every package that declares
\* dimensions; None when no package declares any
Envelope ==
  LET withDims == {i \in 1..Len(selPackages) : IsSome(selPackages[i].dimensions_cm)}
      d(i) == Val(selPackages[i].dimensions_cm)
  IN IF withDims = {} THEN None
     ELSE Some(<< CHOOSE x \in {d(i).length : i \in withDims} :
                    \A i \in withDims : d(i).length <= x,
                  CHOOSE x \in {d(i).width : i \in withDims} :
                    \A i \in withDims : d(i).width <= x,
                  CHOOSE x \in {d(i).height : i \in withDims} :
                    \A i \in withDims : d(i).height <= x >>)

\* some orientation of the envelope is within the ceiling side by side
Accommodates(ceiling, envelope) ==
  \/ ~IsSome(ceiling)
  \/ ~IsSome(envelope)
  \/ \E p \in Perms3 :
       LET e == Permute(Val(envelope), p)
       IN /\ e[1] <= Val(ceiling).maxLengthCm
          /\ e[2] <= Val(ceiling).maxWidthCm
          /\ e[3] <= Val(ceiling).maxHeightCm

InRange(i, w) ==
  /\ FLeq(capabilities[i].parcelType.minWeightKg, w)
  /\ FLeq(w, capabilities[i].parcelType.maxWeightKg)

\* entry k is the first of the set Q in ascending order of tier max weight
FirstByMaxWeight(k, Q) ==
  \A j \in Q :
    \/ FLess(capabilities[k].parcelType.maxWeightKg, capabilities[j].parcelType.maxWeightKg)
    \/ /\ capabilities[k].parcelType.maxWeightKg = capabilities[j].parcelType.maxWeightKg
       /\ k <= j

\* the entries that qualify when every weight is tested against the range
QualifyingAnyWeight ==
  {i \in Relevant : /\ InRange(i, HeaviestKg)
                    /\ Accommodates(capabilities[i].parcelType.dimensions, Envelope)}

\* the entries that qualify when only a positive weight is tested
QualifyingPositiveWeight ==
  {i \in Relevant : /\ FGreater(HeaviestKg, F0) => InRange(i, HeaviestKg)
                    /\ Accommodates(capabilities[i].parcelType.dimensions, Envelope)}

ScenarioE ==
  /\ selPackages = << PackageConstraints(3, None), PackageConstraints(7, None) >>
  /\ capabilities = << Capability("X", "S", 0, 5, None), Capability("X", "L", 5, 10, None) >>
  /\ productKey = "X"

\* C5 as stated: for a non-empty package list the selector returns the key of
\* the first entry of the product, in ascending tier max-weight order, whose
\* range holds the weight of the heaviest package and whose dimension ceiling,
\* when present, accommodates the envelope, when present; undefined when no
\* entry qualifies; packages of 3 kg and 7 kg with S [0,5], L [5,10] give "L"
C5_FirstQualifyingEntry ==
  (PackagesReturned /\ selPackages # << >>) =>
    /\ QualifyingAnyWeight = {} => selResult = Undefined
    /\ QualifyingAnyWeight # {} =>
         \E k \in QualifyingAnyWeight :
           /\ FirstByMaxWeight(k, QualifyingAnyWeight)
           /\ selResult = capabilities[k].parcelType.key
    /\ ScenarioE => selResult = "L"

\* C5 amended: as C5, with the range tested only when the weight of the
\* heaviest package is positive (a weight of 0 is accepted by every range)
C5_FirstQualifyingEntryPositiveWeight ==
  (PackagesReturned /\ selPackages # << >>) =>
    /\ QualifyingPositiveWeight = {} => selResult = Undefined
    /\ QualifyingPositiveWeight # {} =>
         \E k \in QualifyingPositiveWeight :
           /\ FirstByMaxWeight(k, QualifyingPositiveWeight)
           /\ selResult = capabilities[k].parcelType.key
    /\ ScenarioE => selResult = "L"

\* the call on packages of 3 kg and 7 kg has returned "L"
C5_Witness == PackagesReturned /\ ScenarioE /\ selResult = "L"

\* ------------------------------------------------------------------------
\* properties of the callers (checked under SpecLabel)
\* ------------------------------------------------------------------------

\* the tier keys of the catalog the caller was handed
CatalogKeys ==
  IF fetchFails THEN {}
  ELSE {capabilities[i].parcelType.key : i \in 1..Len(capabilities)}

\* C6: when label creation reaches the carrier request, from
\* createFulfillment or from the workflow step, there is at least one piece
\* and the parcel type of every piece is a defined, non-empty tier key: a key
\* of the catalog or the literal 'SMALL'
C6_PiecesCarryParcelType ==
  pc = "sent" =>
    /\ Len(pieces) > 0
    /\ \A i \in 1..Len(pieces) :
         /\ pieces[i].parcelType # Undefined
         /\ pieces[i].parcelType # ""
         /\ pieces[i].parcelType \in CatalogKeys \cup {"SMALL"}

\* the workflow step has sent its request after the fetch answered with an
\* empty catalog
C6_Witness ==
  /\ pc = "sent"
  /\ caller = "createDhlShipment"
  /\ ~fetchFails
  /\ capabilities = << >>
  /\ pieces[1].parcelType = "SMALL"

\* the caller has gone through its chain of selections
Resolved == pc \in {"pieces", "sent", "priced"} /\ ~fetchFails

\* what selectParcelTypeForPackagesFromCapabilities answers the caller
ConstrainedResult ==
  selectParcelTypeForPackagesFromCapabilities(
    capabilities, EffectiveProduct, PackagesForSelection(packages, totalWeightKg))

\* whether the caller asks for the weight-only selection once the constrained
\* one is undefined: the provider with a product key and a positive total
\* weight, the workflow step when the product has tiers
WeightOnlyAsked ==
  IF caller = "createDhlShipment"
    THEN ParcelTypesOfProduct(capabilities, EffectiveProduct) # << >>
    ELSE Truthy(EffectiveProduct) /\ FGreater(totalWeightKg, F0)

\* what selectOptimalParcelType answers the caller, undefined when not asked
WeightOnlyResult ==
  IF WeightOnlyAsked
    THEN selectOptimalParcelType(ParcelTypesOfProduct(capabilities, EffectiveProduct),
                                 totalWeightKg)
    ELSE Undefined

\* the default: the first tier of the product, else of the catalog, else 'SMALL'
DefaultKey ==
  LET own == {i \in 1..Len(capabilities) : capabilities[i].product.key = EffectiveProduct}
  IN IF own # {} THEN capabilities[CHOOSE i \in own : \A j \in own : i <= j].parcelType.key
     ELSE IF Len(capabilities) > 0 THEN capabilities[1].parcelType.key
     ELSE "SMALL"

\* C7: the callers use the result of
\* selectParcelTypeForPackagesFromCapabilities whenever it is defined, the
\* weight-only result of selectOptimalParcelType only when the constrained
\* result is undefined, and the default key only when both are undefined; a
\* failed fetch in the workflow step leaves both undefined and 'SMALL' in use
C7_StrictPriorityOrder ==
  /\ Resolved =>
       /\ byConstraints = ConstrainedResult
       /\ ConstrainedResult # Undefined => parcelType = ConstrainedResult
       /\ (ConstrainedResult = Undefined /\ WeightOnlyResult # Undefined)
            => parcelType = WeightOnlyResult
       /\ (ConstrainedResult = Undefined /\ WeightOnlyResult = Undefined)
            => parcelType = DefaultKey
  /\ (pc \in {"pieces", "sent"} /\ fetchFails)
       => /\ byConstraints = Undefined
          /\ optimal = Undefined
          /\ parcelType = "SMALL"

\* a provider call where both selections are defined and differ, and the
\* constrained one is in use
C7_Witness ==
  /\ pc = "sent"
  /\ caller = "createFulfillment"
  /\ ConstrainedResult # Undefined
  /\ selectOptimalParcelType(ParcelTypesOfProduct(capabilities, EffectiveProduct),
                             totalWeightKg) \notin {Undefined, ConstrainedResult}
  /\ parcelType = ConstrainedResult

\* ------------------------------------------------------------------------
\* properties of the dimension-fit tests (checked under SpecFit)
\* ------------------------------------------------------------------------

\* the ascending arrangement of a triple
Ascending(t) ==
  CHOOSE s \in {Permute(t, p) : p \in Perms3} : s[1] <= s[2] /\ s[2] <= s[3]

SortedFit(t, c) ==
  /\ Ascending(t)[1] <= Ascending(c)[1]
  /\ Ascending(t)[2] <= Ascending(c)[2]
  /\ Ascending(t)[3] <= Ascending(c)[3]

\* C8: the fit test of the packer (unit against box, unit against package)
\* and of the selector (envelope against ceiling) holds exactly when the
\* ascending unit triple is componentwise <= the ascending container triple,
\* and turning the unit or the container to another orientation does not
\* change its answer; a unit (10,20,5) fits a box (20,10,6)
C8_RotationInvariantFit ==
  /\ [](fitResult # None => Val(fitResult) = SortedFit(fitUnit, fitContainer))
  /\ [][(fitResult # None /\ fitResult' # None) => fitResult' = fitResult]_vars
  /\ []((fitResult # None /\ fitUnit = << 10, 20, 5 >> /\ fitContainer = << 20, 10, 6 >>)
          => Val(fitResult) = TRUE)

\* the unit (10,20,5) has been turned and is accepted by the box (20,10,6)
C8_Witness ==
  /\ fitFn = "fitsUnitInBox"
  /\ fitUnit = << 5, 10, 20 >>
  /\ fitContainer = << 20, 10, 6 >>
  /\ fitResult = Some(TRUE)

\* ------------------------------------------------------------------------
\* the arguments of the pure functions (checked under SpecCalls)
\* ------------------------------------------------------------------------

\* C12: packItemsIntoBoxes, selectBoxForItems, selectOptimalParcelType and
\* selectParcelTypeForPackagesFromCapabilities leave the items list, the boxes
\* list, the tier list, the capability catalog and the package list as they
\* were handed in: the same elements in the same order after every step
C12_InputsUnchanged ==
  [][/\ items' = items
     /\ boxes' = boxes
     /\ parcelTypes' = parcelTypes
     /\ capabilities' = capabilities
     /\ selPackages' = selPackages]_vars

\* a call has returned a tier for a catalog that is not in ascending order of
\* tier max weight, and the catalog is still in that order
C12_Witness ==
  /\ pc = "returned"
  /\ selFn = "selectParcelTypeForPackagesFromCapabilities"
  /\ selResult # Undefined
  /\ Len(capabilities) = 2
  /\ FLess(capabilities[2].parcelType.maxWeightKg, capabilities[1].parcelType.maxWeightKg)

\* ------------------------------------------------------------------------
\* properties of selectBoxForItems (checked under SpecBox)
\* ------------------------------------------------------------------------
InteriorVolume(b) == b.inner_cm.length * b.inner_cm.width * b.inner_cm.height

ItemDims(i) == getDimsCmFromUnknownItem(items[i]).dims

DimensionedItems == {i \in 1..Len(items) : IsSome(ItemDims(i))}

\* the least triple that holds every item's length, width and height
ItemsEnvelope ==
  << CHOOSE x \in {Val(ItemDims(i)).length_cm : i \in DimensionedItems} :
       \A i \in DimensionedItems : Val(ItemDims(i)).length_cm <= x,
     CHOOSE x \in {Val(ItemDims(i)).width_cm : i \in DimensionedItems} :
       \A i \in DimensionedItems : Val(ItemDims(i)).width_cm <= x,
     CHOOSE x \in {Val(ItemDims(i)).height_cm : i \in DimensionedItems} :
       \A i \in DimensionedItems : Val(ItemDims(i)).height_cm <= x >>

\* each item's volume times its quantity, summed
RECURSIVE VolumeOfItems(_)
VolumeOfItems(n) ==
  IF n = 0 THEN 0
  ELSE VolumeOfItems(n - 1)
         + (IF n \in DimensionedItems
              THEN Val(ItemDims(n)).length_cm * Val(ItemDims(n)).width_cm
                     * Val(ItemDims(n)).height_cm * ItemQuantity(items[n])
              ELSE 0)

\* the aggregate weight: the grams of every item times its quantity, in kg
RECURSIVE GramsOfItems(_)
GramsOfItems(n) ==
  IF n = 0 THEN 0 ELSE GramsOfItems(n - 1) + ItemGrams(items[n]) * ItemQuantity(items[n])

BoxQualifies(b) ==
  /\ IsSome(b.max_weight_kg) => FLeq(FDiv(GramsOfItems(Len(items)), 1000), Val(b.max_weight_kg))
  /\ DimensionedItems # {} =>
       /\ SortedFit(ItemsEnvelope, << b.inner_cm.length, b.inner_cm.width, b.inner_cm.height >>)
       /\ InteriorVolume(b) >= VolumeOfItems(Len(items))

QualifyingBoxes == {i \in 1..Len(boxes) : BoxQualifies(boxes[i])}

\* C13: selectBoxForItems returns, without the fallback flag, the first box
\* in ascending interior-volume order whose max weight (when defined) is >=
\* the aggregate weight and, when any item has dimensions, whose interior
\* accommodates the items' dimensions under the sorted-dimension-fit test and
\* whose interior volume is >= the total item volume; when no box qualifies,
\* the largest-volume box with the flag; when there is no box, no box with
\* the flag
C13_SmallestQualifyingBox ==
  pc = "selected" =>
    LET r == Val(selection)
    IN IF boxes = << >>
         THEN r.selectedBox = None /\ r.used_fallback_largest
       ELSE IF QualifyingBoxes = {}
         THEN /\ r.used_fallback_largest
              /\ IsSome(r.selectedBox)
              /\ \E k \in 1..Len(boxes) :
                   /\ r.selectedBox = Some(boxes[k])
                   /\ \A j \in 1..Len(boxes) :
                        InteriorVolume(boxes[j]) <= InteriorVolume(boxes[k])
       ELSE /\ ~r.used_fallback_largest
            /\ \E k \in QualifyingBoxes :
                 /\ r.selectedBox = Some(boxes[k])
                 /\ \A j \in QualifyingBoxes :
                      \/ InteriorVolume(boxes[k]) < InteriorVolume(boxes[j])
                      \/ InteriorVolume(boxes[k]) = InteriorVolume(boxes[j]) /\ k <= j

\* two boxes of different volume qualify for items with dimensions, the larger
\* one comes first in the list, and the smaller one is returned
C13_Witness ==
  /\ pc = "selected"
  /\ DimensionedItems # {}
  /\ QualifyingBoxes = {1, 2}
  /\ InteriorVolume(boxes[2]) < InteriorVolume(boxes[1])
  /\ Val(selection).selectedBox = Some(boxes[2])
  /\ ~Val(selection).used_fallback_largest

\* ------------------------------------------------------------------------
\* the total weight of packItemsIntoBoxes (checked under Spec)
\* ------------------------------------------------------------------------

\* a significand of more than 53 bits brought back to 53 bits and rounded
RECURSIVE NormRound(_, _)
NormRound(s, e) ==
  IF s.hi >= HiTop THEN NormRound(ShiftR1(s), e + 1)
  ELSE RoundNearestEven(s.hi, s.lo, s.g, s.st, e)

\* the product x * q of a number and a small natural (q below 16)
FMulInt(x, q) ==
  IF q = 0 \/ FIsZero(x) THEN F0
  ELSE NormRound([hi |-> x.hi * q + ((x.lo * q) \div Limb), lo |-> (x.lo * q) % Limb,
                  g |-> 0, st |-> 0], x.e)

\* the sum over the items of (grams / 1000) * quantity
RECURSIVE SumOfItemKilograms(_)
SumOfItemKilograms(n) ==
  IF n = 0 THEN F0
  ELSE FAdd(SumOfItemKilograms(n - 1),
            FMulInt(FDiv(ItemGrams(items[n]), 1000), ItemQuantity(items[n])))

\* C14 as stated: total_weight_kg of packItemsIntoBoxes is the sum over the
\* items of (unit weight in grams / 1000) x quantity, quantity defaulting to 1,
\* whatever the boxes and the placement
C14_TotalIsSumOfKilograms ==
  pc = "returned" => totalWeightKg = SumOfItemKilograms(Len(items))

\* C14 amended: total_weight_kg of packItemsIntoBoxes is (the sum over the
\* items of unit weight in grams x quantity) / 1000, quantity defaulting to 1:
\* one division of the gram total, whatever the boxes and the placement
C14_TotalIsGramsOverThousand ==
  pc \in {"loop", "returned"} => totalWeightKg = FDiv(GramsOfItems(Len(items)), 1000)

\* a packing of several units of one item into a box that rejects one of them
C14_Witness ==
  /\ pc = "returned"
  /\ Len(items) = 1
  /\ ItemQuantity(items[1]) = 3
  /\ ItemGrams(items[1]) = 500
  /\ Len(packages) = 2
  /\ totalWeightKg = FDiv(1500, 1000)

\* ------------------------------------------------------------------------
\* the fallbacks and the diagnostics of packItemsIntoBoxes (checked under Spec)
\* ------------------------------------------------------------------------

\* the unit the loop is at is accepted by no package and held by no box
NoRoomAnywhere ==
  /\ \A i \in 1..Len(packages) : ~Accepts(packages[i], units[idx])
  /\ \A b \in Range(boxes) : ~HoldsAlone(units[idx], b)

\* C18: with boxes configured, a unit that no existing package accepts and
\* that no box can hold alone goes into a new package backed by a box of the
\* largest interior volume, and used_fallback_largest is true from then on,
\* so also in the result
C18_FallbackToLargestBox ==
  /\ [][(PackUnit /\ boxes # << >> /\ NoRoomAnywhere)
          => /\ Len(packages') = Len(packages) + 1
             /\ SubSeq(packages', 1, Len(packages)) = packages
             /\ packages'[Len(packages')].box \in Range(boxes)
             /\ \A b \in Range(boxes) :
                  BoxVolume(b) <= BoxVolume(packages'[Len(packages')].box)
             /\ packages'[Len(packages')].units = 1
             /\ packages'[Len(packages')].weight_kg = units[idx].weight_kg
             /\ usedFallbackLargest']_vars
  /\ [][(pc = "loop" /\ usedFallbackLargest) => usedFallbackLargest']_vars

\* a 30x30x30 unit, boxes 20x10x6 and 20x20x20: one package in the 20x20x20
\* box, with the flag
C18_Witness ==
  /\ pc = "returned"
  /\ Len(units) = 1
  /\ units[1].dims # None
  /\ UnitTriple(units[1]) = << 30, 30, 30 >>
  /\ {BoxTriple(b) : b \in Range(boxes)} = {<< 20, 10, 6 >>, << 20, 20, 20 >>}
  /\ Len(packages) = 1
  /\ BoxTriple(packages[1].box) = << 20, 20, 20 >>
  /\ usedFallbackLargest

\* the items that expand to at least one unit, with and without dimensions
UnitsWithDims == {i \in 1..Len(items) : ItemQuantity(items[i]) > 0 /\ IsSome(ItemDims(i))}

UnitsWithoutDims == {i \in 1..Len(items) : ItemQuantity(items[i]) > 0 /\ ~IsSome(ItemDims(i))}

\* C19: with boxes configured, when has_item_dimensions is true and at least
\* one expanded unit lacks dimensions, used_fallback_largest is true in the
\* result, also when every unit went into a box that fits it
C19_MissingDimsForceFallbackFlag ==
  (pc = "returned" /\ boxes # << >> /\ hasItemDimensions /\ UnitsWithoutDims # {})
    => usedFallbackLargest

\* one unit with dimensions and one without in a single box without weight
\* ceiling that holds the first: the flag is set
C19_Witness ==
  /\ pc = "returned"
  /\ UnitsWithDims # {}
  /\ UnitsWithoutDims # {}
  /\ Len(packages) = 1
  /\ packages[1].box.max_weight_kg = None
  /\ \A i \in 1..Len(units) : HoldsAlone(units[i], packages[1].box)
  /\ packages[1].volume_cm3 <= BoxVolume(packages[1].box)
  /\ usedFallbackLargest

\* C20: for every items list, items of quantity 0 included,
\* has_item_dimensions of packItemsIntoBoxes is true exactly when at least one
\* expanded unit carries dimensions
C20_HasDimensionsIffSomeUnitHasDimensions ==
  pc \in {"loop", "returned"} =>
    (hasItemDimensions <=> \E i \in 1..Len(units) : IsSome(units[i].dims))

\* ------------------------------------------------------------------------
\* properties of the webhook handler (checked under SpecWebhook)
\* ------------------------------------------------------------------------
Blanks(n) == [i \in 1..n |-> " "]

MaxHeaderPieces == 5

\* the header strings that carry the key: the key alone or after the word
\* Bearer and blanks, in either case surrounded by blanks or not
HeaderStringsCarrying(key) ==
  {Blanks(a) \o << key >> \o Blanks(z) : a \in 0..MaxHeaderPieces, z \in 0..MaxHeaderPieces}
    \cup {<< w >> \o Blanks(a) \o << key >> \o Blanks(z) :
            w \in {"Bearer", "bearer"}, a \in 1..MaxHeaderPieces, z \in 0..MaxHeaderPieces}

\* the header the settings name (Authorization when they name none) carried
\* the webhook API key the settings hold
KeyCarried ==
  /\ settings # None
  /\ settings[1].webhook_api_key \notin {Undefined, ""}
  /\ LET name == IF settings[1].webhook_api_key_header \in {Undefined, ""}
                   THEN "authorization"
                   ELSE IF settings[1].webhook_api_key_header = "X-Key" THEN "x-key"
                        ELSE settings[1].webhook_api_key_header
     IN /\ headers[name].t = "string"
        /\ headers[name].s \in HeaderStringsCarrying(settings[1].webhook_api_key)

\* the payload is an object whose created and barcode are strings when there,
\* and whose barcodes is an array when there
WellFormedPayload ==
  /\ body.t = "object"
  /\ body.created.t \in {"undefined", "string"}
  /\ body.barcode.t \in {"undefined", "string"}
  /\ body.barcodes.t \in {"undefined", "array"}

\* the non-empty codes of a well-formed payload
PayloadCodes ==
  {c \in {"T1", "T2", "T3"} :
     \/ body.barcode = JsString(c)
     \/ body.barcodes.t = "array" /\ \E i \in DOMAIN body.barcodes.a : body.barcodes.a[i] = c}

\* a stored DHL fulfillment has a label with one of the payload's codes
SomeDhlFulfillmentMatches ==
  /\ WellFormedPayload
  /\ \E f \in storedFulfillments :
       /\ f.provider_id = "dhl"
       /\ \E c \in PayloadCodes : c \in Range(f.labels)

\* C15: the update workflow is started only for a request whose configured
\* header carried the configured key and for which a DHL fulfillment matched a
\* tracker code; the 200 response is sent before the workflow is started, and
\* no response, once sent, changes, whatever becomes of the workflow
C15_WorkflowOnlyAfterAuthenticatedMatchAnd200 ==
  /\ [](workflow # "none" => (KeyCarried /\ SomeDhlFulfillmentMatches /\ status = 200))
  /\ [][(workflow = "none" /\ workflow' # "none") => (status = 200 /\ status' = 200)]_vars
  /\ [][status # 0 => status' = status]_vars

\* the workflow failed after the 200 went out for a Bearer header
C15_Witness ==
  /\ workflow = "failed"
  /\ status = 200
  /\ headers["authorization"] = JsString(<< "bearer", " ", " ", "k1", " " >>)
  /\ settings[1].webhook_api_key_header = Undefined
  /\ matching # {}

\* C16: an authenticated request with a well-formed payload of at least one
\* tracker code, none of which is on a label of a DHL fulfillment, is answered
\* 404, and the update workflow is never started for it
C16_UnknownParcel404 ==
  (KeyCarried /\ WellFormedPayload /\ PayloadCodes # {} /\ ~SomeDhlFulfillmentMatches)
    => /\ workflow = "none"
       /\ status \in {0, 404}
       /\ pc \in {"received", "validated", "responded"}
       /\ pc = "responded" => status = 404

\* the query returned a DHL fulfillment with other labels, the handler's
\* filter left nothing, 404
C16_Witness ==
  /\ pc = "responded"
  /\ status = 404
  /\ KeyCarried
  /\ PayloadCodes = {"T1"}
  /\ fulfillments # {}
  /\ matching = {}

\* ------------------------------------------------------------------------
\* properties of getCredentials (checked under SpecCredentials)
\* ------------------------------------------------------------------------
Credentials(r) == << r.user_id, r.api_key, r.account_id >>

OptionCredentials == << options[1].userId, options[1].apiKey, options[1].accountId >>

\* the table holds credentials: its first row has the two ids and the key
CredentialsStored ==
  /\ dhlSettings # << >>
  /\ \A v \in Range(Credentials(dhlSettings[1])) : v \notin {Undefined, ""}

RECURSIVE FirstPresent(_)
FirstPresent(ws) ==
  IF ws = << >> THEN 0
  ELSE IF Head(ws) # None THEN Head(ws)[1]
  ELSE FirstPresent(Tail(ws))

OwnVariantWeight == items[1].variant[1].weight

OwnProductWeight == items[1].product[1].weight

LineItemVariantWeight == items[1].line_item[1].variant[1].weight

LineItemProductWeight == items[1].line_item[1].product[1].weight

\* every unit weighs g grams
UnitsWeigh(g) ==
  pc \in {"loop", "returned"} =>
    \A i \in 1..Len(units) : units[i].weight_kg = FDiv(g, 1000)

\* C21 as stated: the unit weight is the first present of the item's variant
\* weight, the item's product weight, the line_item variant weight and the
\* line_item product weight
C21_OwnWeightsFirst ==
  UnitsWeigh(FirstPresent(<< OwnVariantWeight, OwnProductWeight, LineItemVariantWeight,
                             LineItemProductWeight >>))

\* C21, amended: the unit weight is the first present of the line_item variant
\* weight, the line_item product weight and the item's variant weight, and 0
\* when none is present; the item's product weight is not read
C21_LineItemWeightsFirst ==
  UnitsWeigh(FirstPresent(<< LineItemVariantWeight, LineItemProductWeight,
                             OwnVariantWeight >>))

\* an item with 100 g on line_item.variant and 300 g on variant: units of 100 g
C21_Witness ==
  /\ pc = "returned"
  /\ LineItemVariantWeight = Some(100)
  /\ OwnVariantWeight = Some(300)
  /\ Len(units) = 2
  /\ units[1].weight_kg = FDiv(100, 1000)

\* ------------------------------------------------------------------------
\* the envelope of the packages selector (checked under SpecEnvelope)
\* ------------------------------------------------------------------------
\* the packages that declare dimensions
Declaring == {i \in 1..Len(selPackages) : selPackages[i].dimensions_cm # None}

LargestOf(S) == CHOOSE x \in S : \A y \in S : y <= x

\* the largest length, the largest width and the largest height declared
EnvelopeTriple ==
  << LargestOf({selPackages[i].dimensions_cm[1].length : i \in Declaring}),
     LargestOf({selPackages[i].dimensions_cm[1].width : i \in Declaring}),
     LargestOf({selPackages[i].dimensions_cm[1].height : i \in Declaring}) >>

CeilingTriple(i) ==
  << capabilities[i].parcelType.dimensions[1].maxLengthCm,
     capabilities[i].parcelType.dimensions[1].maxWidthCm,
     capabilities[i].parcelType.dimensions[1].maxHeightCm >>

\* the dimension check of tier i: satisfied without a ceiling, without a
\* declaring package, and when the envelope, turned, is within the ceiling
DimensionCheck(i) ==
  \/ capabilities[i].parcelType.dimensions = None
  \/ Declaring = {}
  \/ RotationFits(EnvelopeTriple, CeilingTriple(i))

PassingTiers ==
  {i \in Relevant : /\ FGreater(HeaviestKg, F0) => InRange(i, HeaviestKg)
                    /\ DimensionCheck(i)}

\* C22: the selector answers with the first tier, in ascending max-weight
\* order, that holds the heaviest weight and passes the dimension check,
\* where the envelope is the componentwise maximum over exactly the packages
\* that declare dimensions and the check is satisfied when no package declares
\* dimensions or the tier has no ceiling
C22_EnvelopeOverDeclaringPackages ==
  (PackagesReturned /\ selPackages # << >>) =>
    /\ PassingTiers = {} => selResult = Undefined
    /\ PassingTiers # {} =>
         \E k \in PassingTiers :
           /\ FirstByMaxWeight(k, PassingTiers)
           /\ selResult = capabilities[k].parcelType.key

\* packages 30x5x5 and 5x5x30, each within the ceiling 30x20x20, whose
\* envelope 30x5x30 is not: no tier
C22_Witness ==
  /\ PackagesReturned
  /\ selPackages = << PackageConstraints(3, Some(<< 30, 5, 5 >>)),
                      PackageConstraints(3, Some(<< 5, 5, 30 >>)) >>
  /\ capabilities = << Capability("X", "S", 0, 5, Some(<< 30, 20, 20 >>)) >>
  /\ selResult = Undefined

\* ------------------------------------------------------------------------
\* the order in which the packer places the units (checked under Spec)
\* ------------------------------------------------------------------------
\* the volume of one unit of item i, 0 without dimensions
ItemUnitVolume(i) ==
  IF ItemDims(i) = None THEN 0
  ELSE ItemDims(i)[1].length_cm * ItemDims(i)[1].width_cm * ItemDims(i)[1].height_cm

\* the number of units of volume v the first n items expand to
RECURSIVE UnitsOfVolume(_, _)
UnitsOfVolume(v, n) ==
  IF n = 0 THEN 0
  ELSE UnitsOfVolume(v, n - 1)
         + (IF ItemUnitVolume(n) = v THEN ItemQuantity(items[n]) ELSE 0)

\* C23: the units the loop goes through are the expansion of the items, and
\* the unit the loop places has a volume at least that of every unit it has
\* not placed yet, a unit without dimensions (volume 0) coming after every
\* unit with dimensions, whatever the order of the items; the loop goes
\* through the units one by one
C23_LargestVolumeFirst ==
  /\ [](pc \in {"loop", "returned"} =>
          \A v \in {0} \cup {ItemUnitVolume(i) : i \in 1..Len(items)} :
            Cardinality({j \in 1..Len(units) : units[j].volume_cm3 = v})
              = UnitsOfVolume(v, Len(items)))
  /\ [][PackUnit =>
          /\ idx' = idx + 1
          /\ \A j \in (idx + 1)..Len(units) :
               /\ units[j].volume_cm3 <= units[idx].volume_cm3
               /\ units[idx].dims = None => units[j].dims = None]_vars

\* the first item has no dimensions, the second is 30x30x30: the loop went
\* through the 30x30x30 unit first and the unit without dimensions last
C23_Witness ==
  /\ pc = "returned"
  /\ boxes # << >>
  /\ Len(items) = 2
  /\ ItemDims(1) = None
  /\ ItemUnitVolume(2) = 27000
  /\ units[1].volume_cm3 = 27000
  /\ units[Len(units)].dims = None
  /\ idx = Len(units) + 1

\* ------------------------------------------------------------------------
\* what the packages and the diagnostics of packItemsIntoBoxes account for
\* (checked under Spec)
\* ------------------------------------------------------------------------
\* the units without dimensions that are heavier than every box allows
TooHeavyWithoutDims ==
  {j \in 1..Len(units) :
     /\ units[j].dims = None
     /\ \A b \in Range(boxes) :
          b.max_weight_kg # None /\ FGreater(units[j].weight_kg, b.max_weight_kg[1])}

\* C24: unplaced_units counts every unit that could not be confidently fit,
\* so at least every unit without dimensions whose weight exceeds the max
\* weight of every configured box, with boxes configured or not
C24_UnplacedCountsUnfitUnits ==
  pc = "returned" => unplacedUnits >= Cardinality(TooHeavyWithoutDims)

\* the number of units the first n items expand to
RECURSIVE ExpandedUnits(_)
ExpandedUnits(n) ==
  IF n = 0 THEN 0 ELSE ExpandedUnits(n - 1) + ItemQuantity(items[n])

RECURSIVE UnitsInPackages(_)
UnitsInPackages(n) ==
  IF n = 0 THEN 0 ELSE UnitsInPackages(n - 1) + packages[n].units

Overweight(p) ==
  p.box.max_weight_kg # None /\ FGreater(p.weight_kg, p.box.max_weight_kg[1])

\* C27: a package is heavier than its box allows only when it holds exactly
\* one unit, put there by the fallback to the largest box; a unit added to an
\* existing package leaves it within the max weight of its box
C27_WeightCeilingKept ==
  /\ [](\A k \in 1..Len(packages) :
          Overweight(packages[k]) =>
            /\ packages[k].units = 1
            /\ usedFallbackLargest
            /\ \A b \in Range(boxes) : BoxVolume(b) <= BoxVolume(packages[k].box))
  /\ [][PackUnit =>
          \A k \in 1..Len(packages) :
            packages'[k] # packages[k] =>
              /\ packages'[k].units = packages[k].units + 1
              /\ ~Overweight(packages'[k])]_vars

\* 500 g units and a 1 kg box: the first package took two units and is at its
\* ceiling, the third unit went to a second package
C27_Witness ==
  /\ pc = "returned"
  /\ Len(packages) = 2
  /\ packages[1].units = 2
  /\ packages[1].box.max_weight_kg = Some(FDiv(1000, 1000))
  /\ packages[1].weight_kg = FDiv(1000, 1000)
  /\ packages[2].units = 1
  /\ ~usedFallbackLargest

\* C28: when the result has used_fallback_largest false, with boxes
\* configured, every package's volume is within the interior volume of its
\* box, and every unit with dimensions went into a package whose box it fits
\* in some orientation
C28_NoFallbackMeansEverythingFits ==
  /\ []((pc = "returned" /\ boxes # << >> /\ ~usedFallbackLargest) =>
          \A k \in 1..Len(packages) : packages[k].volume_cm3 <= BoxVolume(packages[k].box))
  /\ [][(PackUnit /\ ~usedFallbackLargest' /\ units[idx].dims # None) =>
          \E k \in 1..Len(packages') :
            /\ k > Len(packages) \/ packages'[k] # packages[k]
            /\ RotationFits(UnitTriple(units[idx]), BoxTriple(packages'[k].box))]_vars
  /\ [][(usedFallbackLargest /\ pc = "loop") => usedFallbackLargest']_vars

\* two units with dimensions packed without fallback
C28_Witness ==
  /\ pc = "returned"
  /\ boxes # << >>
  /\ ~usedFallbackLargest
  /\ Len(units) >= 2
  /\ \A j \in 1..Len(units) : units[j].dims # None
  /\ \E k \in 1..Len(packages) : packages[k].volume_cm3 > 0

\* ------------------------------------------------------------------------
\* the pieces createFulfillment sends (checked under SpecLabel)
\* ------------------------------------------------------------------------
\* the product createFulfillment selected: the one asked for, else DOOR when
\* the catalog has it, else the product of the first entry
SelectedProduct ==
  IF productKey # Undefined THEN productKey
  ELSE IF \E i \in 1..Len(capabilities) : capabilities[i].product.key = "DOOR" THEN "DOOR"
  ELSE capabilities[1].product.key

SelectedProductIsMonoCollo ==
  \E i \in 1..Len(capabilities) :
    /\ capabilities[i].product.key = SelectedProduct
    /\ capabilities[i].product.monoColloProduct

\* C25: createFulfillment sends more than one piece only when the selected
\* product is not mono-collo and the packing has more than one package, and
\* then one piece per package with that package's weight and the dimensions
\* of its box; in every other case it sends exactly one piece
C25_MultiPieceOnlyForMultiColloPacking ==
  (pc = "sent" /\ caller = "createFulfillment") =>
    IF ~SelectedProductIsMonoCollo /\ Len(packages) > 1
      THEN /\ Len(pieces) = Len(packages)
           /\ \A i \in 1..Len(packages) :
                /\ pieces[i].weight = Some(packages[i].weight_kg)
                /\ pieces[i].dimensions = Some(packages[i].box.inner_cm)
      ELSE Len(pieces) = 1

\* two packages for the mono-collo product "M": one piece
C25_Witness ==
  /\ pc = "sent"
  /\ caller = "createFulfillment"
  /\ SelectedProduct = "M"
  /\ SelectedProductIsMonoCollo
  /\ Len(packages) = 2
  /\ Len(pieces) = 1

\* ------------------------------------------------------------------------
\* properties of getAccessToken (checked under SpecAuth)
\* ------------------------------------------------------------------------
\* C29: the token returned to a call was issued to the credentials passed to
\* that call, whatever other calls were made before or meanwhile
C29_TokenOfOwnCredentials ==
  \A c \in DOMAIN authCalls :
    authCalls[c].at = "returned" =>
      authCalls[c].token = Some([userId |-> authCalls[c].credentials.userId])

\* ------------------------------------------------------------------------
\* properties of syncTrackingStep (checked under SpecSync)
\* ------------------------------------------------------------------------
ShippedAtWritten(i) == trackings'[i].shipped_at # trackings[i].shipped_at

DeliveredAtWritten(i) == trackings'[i].delivered_at # trackings[i].delivered_at

\* C30: a step writes shipped_at of a row only when the run is not a dry run
\* and tryMarkShipped has returned for the row's fulfillment, and delivered_at
\* only when it is not a dry run and tryMarkDelivered has returned for it; a
\* dry run marks nothing
C30_TimestampsOnlyAfterMarking ==
  [][/\ \A i \in DOMAIN trackings :
          /\ ShippedAtWritten(i) =>
               ~dryRun /\ << trackings[i].fulfillment_id, "shipped" >> \in marked
          /\ DeliveredAtWritten(i) =>
               ~dryRun /\ << trackings[i].fulfillment_id, "delivered" >> \in marked
     /\ dryRun => marked' = marked]_vars

\* a finished run that found a parcel delivered which was not shipped yet:
\* both markings were made and both timestamps written
C30_Witness ==
  /\ pc = "finished"
  /\ ~dryRun
  /\ \E i \in DOMAIN trackings :
       /\ trackings[i].shipped_at = Some("now")
       /\ trackings[i].delivered_at = Some("now")
       /\ {<< trackings[i].fulfillment_id, "shipped" >>,
           << trackings[i].fulfillment_id, "delivered" >>} \subseteq marked
====
